---- MODULE Spec2Model ----
(***************************************************************************)
(* squrp: the container codec (src/core/serialization.ts, kept here as     *)
(* src/unnamed/part_003), the compression wrapper (part_004) and the       *)
(* zip/unzip facade (part_005).                                            *)
(*                                                                         *)
(* Scale.  A byte of the model ranges over 0..ByteBase-1 instead of        *)
(* 0..255; every width of the source is kept as a number of bytes, so a    *)
(* 2-byte field holds 0..ByteBase^2-1 (the source's 65535 is PathLimit),   *)
(* a 4-byte field holds 0..ByteBase^4-1 (the source's 0xffffffff is        *)
(* ContentLimit) and JavaScript's 32-bit signed bitwise arithmetic wraps   *)
(* at Int32Half = ByteBase^4 / 2 (the source's 2^31).  Lengths in the      *)
(* source are IEEE doubles and never wrap; they are unbounded integers     *)
(* here.                                                                   *)
(*                                                                         *)
(* Text.  A string is a sequence of code units 0..8 of a nine-character    *)
(* alphabet with the structure of UTF-8: 0,1 are one-byte characters,      *)
(* 2,3 two-byte characters, 4..7 three-byte characters (5 is U+FEFF, the   *)
(* byte order mark; 6 is U+FFFD, the replacement character) and 8 is a     *)
(* lone surrogate, which has no encoding of its own.  Bytes 0,1 are        *)
(* single-byte characters, 2,3 continuation bytes, 4 leads a two-byte and  *)
(* 5 a three-byte sequence; any other byte is invalid.                     *)
(***************************************************************************)
EXTENDS Integers, Sequences, FiniteSets, TLC

\* Number of values of one byte in the model (256 in the source).
ByteBase == 6

\* Largest number of entries of an input map.
MaxEntries == 2

----------------------------------------------------------------------------
\* Integer helpers

Min(a, b) == IF a < b THEN a ELSE b

Max(a, b) == IF a > b THEN a ELSE b

RECURSIVE Pow(_, _)
Pow(b, n) == IF n = 0 THEN 1 ELSE b * Pow(b, n - 1)

Rep(x, n) == [i \in 1..n |-> x]

\* 2^32 and 2^31 of the source's bitwise operators, at the model's scale.
Int32Range == Pow(ByteBase, 4)

Int32Half == Int32Range \div 2

\* ToInt32: what `&`, `|`, `<<` and `>>` do to their operands and results.
ToInt32(v) ==
    LET m == v % Int32Range
    IN  IF m >= Int32Half THEN m - Int32Range ELSE m

\* path.length > 65535
PathLimit == Pow(ByteBase, 2) - 1

\* totalContentSize > 0xffffffff
ContentLimit == Pow(ByteBase, 4) - 1

\* const HEADER = new Uint8Array([0x73, 0x71, 0x75, 0x72, 0x70, 0x00]): six
\* different bytes, the last one zero.
HEADER == <<5, 4, 3, 2, 1, 0>>

----------------------------------------------------------------------------
\* Error codes

INVALID_HEADER == "INVALID_HEADER"
CORRUPTED_DATA == "CORRUPTED_DATA"
UNSUPPORTED_VERSION == "UNSUPPORTED_VERSION"
PATH_TOO_LONG == "PATH_TOO_LONG"
CONTENT_TOO_LARGE == "CONTENT_TOO_LARGE"
UNEXPECTED_END == "UNEXPECTED_END"
ENTRY_EXCEEDS_BOUNDS == "ENTRY_EXCEEDS_BOUNDS"
UNSUPPORTED_COMPRESSION == "UNSUPPORTED_COMPRESSION"
INVALID_COMPRESSION_FORMAT == "INVALID_COMPRESSION_FORMAT"

NoError == "none"

\* The codes a SqurpError carries.
SqurpErrorCode ==
    { INVALID_HEADER, CORRUPTED_DATA, UNSUPPORTED_VERSION, PATH_TOO_LONG,
      CONTENT_TOO_LARGE, UNEXPECTED_END, ENTRY_EXCEEDS_BOUNDS,
      UNSUPPORTED_COMPRESSION, INVALID_COMPRESSION_FORMAT }

\* Errors that are no SqurpError.
TypeError == "TypeError"

InvalidCharacterError == "InvalidCharacterError"

----------------------------------------------------------------------------
\* TextEncoder / TextDecoder

BOM == 5

REPLACEMENT == 6

SURROGATE == 8

IsContinuation(b) == b \in {2, 3}

\* The UTF-8 bytes of one code unit; a lone surrogate is encoded as U+FFFD.
EncodeChar(c) ==
    IF c < 2 THEN <<c>>
    ELSE IF c < 4 THEN <<4, 2 + (c - 2)>>
    ELSE IF c < 8 THEN <<5, 2 + ((c - 4) \div 2), 2 + ((c - 4) % 2)>>
    ELSE <<5, 2 + ((REPLACEMENT - 4) \div 2), 2 + ((REPLACEMENT - 4) % 2)>>

\* The encodings of text[lo..hi], in order.
RECURSIVE EncodeRange(_, _, _)
EncodeRange(text, lo, hi) ==
    IF lo > hi THEN <<>>
    ELSE IF lo = hi THEN EncodeChar(text[lo])
    ELSE LET mid == (lo + hi) \div 2
         IN  EncodeRange(text, lo, mid) \o EncodeRange(text, mid + 1, hi)

\* textEncoder.encode(text)
encodeTextSync(text) == EncodeRange(text, 1, Len(text))

\* The decoder reads a well-formed sequence as its character and every
\* maximal ill-formed prefix as one U+FFFD.  UTF-8 is self-synchronising: a
\* continuation byte belongs to the sequence of the lead byte one or two
\* places before it, every other byte starts a sequence.
Consumed(bytes, i) ==
    /\ IsContinuation(bytes[i])
    /\ \/ i > 1 /\ bytes[i - 1] \in {4, 5}
       \/ i > 2 /\ bytes[i - 2] = 5 /\ IsContinuation(bytes[i - 1])

\* The character of the sequence that starts at i.
DecodeAt(bytes, i) ==
    LET b  == bytes[i]
        c1 == i + 1 <= Len(bytes) /\ IsContinuation(bytes[i + 1])
        c2 == i + 2 <= Len(bytes) /\ IsContinuation(bytes[i + 2])
    IN  IF b < 2 THEN b
        ELSE IF b = 4 /\ c1 THEN 2 + (bytes[i + 1] - 2)
        ELSE IF b = 5 /\ c1 /\ c2
             THEN 4 + 2 * (bytes[i + 1] - 2) + (bytes[i + 2] - 2)
        ELSE REPLACEMENT

IsChar(x) == x >= 0

DecodeAll(bytes) ==
    SelectSeq([i \in 1..Len(bytes) |->
                 IF Consumed(bytes, i) THEN -1 ELSE DecodeAt(bytes, i)], IsChar)

\* textDecoder.decode(bytes): ignoreBOM is false, so one leading byte order
\* mark is dropped.
decodeTextSync(bytes) ==
    LET s == DecodeAll(bytes)
    IN  IF Len(s) > 0 /\ s[1] = BOM THEN Tail(s) ELSE s

----------------------------------------------------------------------------
\* Typed arrays

\* data[i], zero-based; an index outside the array reads undefined, which is
\* -1 here.
At(data, i) == IF i >= 0 /\ i < Len(data) THEN data[i + 1] ELSE -1

\* data.slice(start, end): negative indices count from the end and both
\* are clamped to the array.
Slice(data, start, end) ==
    LET len == Len(data)
        k   == IF start < 0 THEN Max(len + start, 0) ELSE Min(start, len)
        f   == IF end < 0 THEN Max(len + end, 0) ELSE Min(end, len)
    IN  SubSeq(data, k + 1, f)

RECURSIVE Concat(_, _)
Concat(arrays, i) ==
    IF i > Len(arrays) THEN <<>> ELSE arrays[i] \o Concat(arrays, i + 1)

concatUint8Arrays(arrays) == Concat(arrays, 1)

----------------------------------------------------------------------------
\* Little-endian integers

\* value after k rounds of `value >>= 8`
RECURSIVE ShiftedValue(_, _)
ShiftedValue(value, k) ==
    IF k = 0 THEN value ELSE ToInt32(ShiftedValue(value, k - 1)) \div ByteBase

\* A guard that also refuses the values that do not fit a signed 32-bit
\* integer.
encodeLEThrows_Signed(value) == value < 0 \/ value >= Int32Half

\* value < 0 || !Number.isInteger(value)
encodeLEThrows(value) == value < 0

\* result[i] = value & 0xff; value >>= 8
encodeLE(value, bytes) ==
    [i \in 1..bytes |-> ToInt32(ShiftedValue(value, i - 1)) % ByteBase]

\* result = (result << 8) | byte, from the last byte down to the first
RECURSIVE DecodeLEFrom(_, _)
DecodeLEFrom(bytes, i) ==
    IF i > Len(bytes) THEN 0
    ELSE ToInt32(DecodeLEFrom(bytes, i + 1) * ByteBase + bytes[i])

decodeLE(bytes) == DecodeLEFrom(bytes, 1)

----------------------------------------------------------------------------
\* Map<string, string | Uint8Array>: a sequence of entries in insertion order
\* with pairwise different keys.

Text(units) == [kind |-> "string", value |-> units]

Bytes(bs) == [kind |-> "Uint8Array", value |-> bs]

Entry(path, content) == [path |-> path, content |-> content]

HasKey(m, key) == \E j \in 1..Len(m) : m[j].path = key

\* result.set(path, content): a present key keeps its place and takes the new
\* value, a new key goes to the end.
MapSet(m, key, content) ==
    IF HasKey(m, key)
    THEN [j \in 1..Len(m) |-> IF m[j].path = key THEN Entry(key, content) ELSE m[j]]
    ELSE Append(m, Entry(key, content))

----------------------------------------------------------------------------
\* serializeFileMap

\* path.length > 65535: the length of a string is its number of code units.
PathTooLong(path) == Len(path) > PathLimit

\* A sizing that takes a string's content.length, its number of code units,
\* for its byte length.
ContentBytesOf_CodeUnits(content) == content.value

\* typeof content === "string" ? encodeTextSync(content) : content
ContentBytesOf(content) ==
    IF content.kind = "string" THEN encodeTextSync(content.value) ELSE content.value

\* totalContentSize > 0xffffffff
ContentTooLarge(totalContentSize) == totalContentSize > ContentLimit

\* The first loop: one validated entry per map entry, or the first error.
RECURSIVE CollectEntries(_, _, _, _)
CollectEntries(map, i, totalContentSize, entries) ==
    IF i > Len(map) THEN [err |-> NoError, entries |-> entries]
    ELSE LET path         == map[i].path
             content      == map[i].content
             contentBytes == ContentBytesOf(content)
             total        == totalContentSize + Len(contentBytes)
         IN  IF PathTooLong(path)
             THEN [err |-> PATH_TOO_LONG, entries |-> <<>>]
             ELSE IF ContentTooLarge(total)
             THEN [err |-> CONTENT_TOO_LARGE, entries |-> <<>>]
             ELSE CollectEntries(map, i + 1, total,
                    Append(entries, [path     |-> path,
                                     isBinary |-> content.kind # "string",
                                     content  |-> contentBytes]))

\* The second loop's body: the record of one entry.
EntryBytes(entry) ==
    LET pathBytes     == encodeTextSync(entry.path)
        pathLength    == Len(pathBytes)
        contentLength == Len(entry.content)
    IN  encodeLE(pathLength, 2) \o encodeLE(contentLength, 4)
          \o <<IF entry.isBinary THEN 1 ELSE 0>>
          \o pathBytes \o entry.content

\* Lines 105-106: encodeLE refuses one of the two lengths of the record.
EntryThrows(entry) ==
    \/ encodeLEThrows(Len(encodeTextSync(entry.path)))
    \/ encodeLEThrows(Len(entry.content))

\* Lines 67-114 up to the await: the entries read from the map and entryData.
SerializeCollect(map) ==
    LET c == CollectEntries(map, 1, 0, <<>>)
    IN  IF c.err # NoError
        THEN [err |-> c.err, entries |-> <<>>, entryData |-> <<>>]
        ELSE IF \E i \in 1..Len(c.entries) : EntryThrows(c.entries[i])
        THEN [err |-> CORRUPTED_DATA, entries |-> <<>>, entryData |-> <<>>]
        ELSE [err       |-> NoError,
              entries   |-> c.entries,
              entryData |-> concatUint8Arrays(
                              [i \in 1..Len(c.entries) |-> EntryBytes(c.entries[i])])]

\* Lines 116-118: encodeLE refuses the entry count or the total length.
AssembleThrows(entries, entryData) ==
    \/ encodeLEThrows(Len(entries))
    \/ encodeLEThrows(Len(HEADER) + 4 + 4 + Len(entryData))

\* Lines 116-120: the header, the two counters and the records.
SerializeAssemble(entries, entryData) ==
    LET entryCountBytes  == encodeLE(Len(entries), 4)
        totalLength      == Len(HEADER) + 4 + 4 + Len(entryData)
        totalLengthBytes == encodeLE(totalLength, 4)
    IN  concatUint8Arrays(<<HEADER, totalLengthBytes, entryCountBytes, entryData>>)

----------------------------------------------------------------------------
\* The compression collaborator (CompressionStream / DecompressionStream)

CompressionFormat == {"gzip", "brotli", "deflate"}

\* What the stream of one format writes in front of its payload.
StreamTag(format) ==
    CASE format = "gzip" -> <<1, 0>>
      [] format = "brotli" -> <<0>>
      [] format = "deflate" -> <<1, 1>>

\* What the stream of one format writes after its payload: a check value.
StreamTrailer(data) == <<Len(data) % ByteBase>>

\* new CompressionStream(format) / new DecompressionStream(format) throw a
\* TypeError for a format the runtime does not support.
StreamUnsupported(format, supported) == format \notin supported

\* compress(data, format): the chunks the stream yields, concatenated.
compress(data, format) ==
    concatUint8Arrays(<<StreamTag(format), data, StreamTrailer(data)>>)

\* The payload of a stream between its tag and its trailer.
StreamPayload(data, format) ==
    SubSeq(data, Len(StreamTag(format)) + 1, Len(data) - 1)

\* The stream rejects (reader.read() throws) what is not a whole stream of
\* its own format.
StreamRejects(data, format) ==
    LET tag == StreamTag(format)
    IN  \/ Len(data) < Len(tag) + 1
        \/ SubSeq(data, 1, Len(tag)) # tag
        \/ <<data[Len(data)]>> # StreamTrailer(StreamPayload(data, format))

\* A catch block that rewrites every error.
Rethrown_Always(error) == CORRUPTED_DATA

\* The catch block of decompress: a SqurpError is thrown again as it is, any
\* other error becomes CORRUPTED_DATA.
Rethrown(error) == IF error \in SqurpErrorCode THEN error ELSE CORRUPTED_DATA

\* A decompress without its catch block: the stream's own error comes out.
decompress_NoCatch(data, format, supported) ==
    IF StreamUnsupported(format, supported) \/ StreamRejects(data, format)
    THEN [err |-> TypeError, out |-> <<>>]
    ELSE [err |-> NoError,
          out |-> concatUint8Arrays(<<StreamPayload(data, format)>>)]

\* decompress(data, format): any failure inside the try block, the
\* constructor's TypeError included, is rethrown as CORRUPTED_DATA.
decompress(data, format, supported) ==
    IF StreamUnsupported(format, supported) \/ StreamRejects(data, format)
    THEN [err |-> Rethrown(TypeError), out |-> <<>>]
    ELSE [err |-> NoError,
          out |-> concatUint8Arrays(<<StreamPayload(data, format)>>)]

----------------------------------------------------------------------------
\* btoa / atob and the binary strings between bytes and base64 text

\* The 65th symbol, "=", and a character outside the base64 alphabet.
Pad == 64

NotBase64 == 65

\* Array.from(compressed, byte => String.fromCharCode(byte)).join("")
BinaryString(bytes) == bytes

\* btoa(binary): each group of three code units gives four 6-bit symbols; a
\* last group of one or two is padded with "=".
btoa(binary) ==
    LET n      == Len(binary)
        groups == (n + 2) \div 3
        unit(k) == IF k <= n THEN binary[k] ELSE 0
        word(g) == unit(3 * g - 2) * 65536 + unit(3 * g - 1) * 256 + unit(3 * g)
        sym(g, j) ==
            CASE j = 1 -> word(g) \div 262144
              [] j = 2 -> (word(g) \div 4096) % 64
              [] j = 3 -> IF 3 * g - 1 > n THEN Pad ELSE (word(g) \div 64) % 64
              [] j = 4 -> IF 3 * g > n THEN Pad ELSE word(g) % 64
    IN  [i \in 1..(4 * groups) |-> sym(((i - 1) \div 4) + 1, ((i - 1) % 4) + 1)]

\* An atob that takes "=" for a symbol like any other.
Unpadded_Keep(text) == text

\* The text atob works on: with a length that is a multiple of four, one or
\* two "=" at the end are removed.
Unpadded(text) ==
    LET n == Len(text)
    IN  IF n % 4 = 0 /\ n >= 2 /\ text[n] = Pad /\ text[n - 1] = Pad
        THEN SubSeq(text, 1, n - 2)
        ELSE IF n % 4 = 0 /\ n >= 1 /\ text[n] = Pad
        THEN SubSeq(text, 1, n - 1)
        ELSE text

\* atob throws InvalidCharacterError.
atobThrows(text) ==
    LET t == Unpadded(text)
    IN  \/ Len(t) % 4 = 1
        \/ \E i \in 1..Len(t) : t[i] > 63

\* atob(base64): every four symbols give three code units, a last group of
\* two or three symbols gives one or two.
atob(text) ==
    LET t      == Unpadded(text)
        n      == Len(t)
        len    == (n \div 4) * 3 + (IF n % 4 = 0 THEN 0 ELSE (n % 4) - 1)
        s(k)   == IF k <= n THEN t[k] ELSE 0
        word(g) == s(4 * g - 3) * 262144 + s(4 * g - 2) * 4096
                     + s(4 * g - 1) * 64 + s(4 * g)
        unit(g, j) ==
            CASE j = 1 -> word(g) \div 65536
              [] j = 2 -> (word(g) \div 256) % 256
              [] j = 3 -> word(g) % 256
    IN  [i \in 1..len |-> unit(((i - 1) \div 3) + 1, ((i - 1) % 3) + 1)]

\* bytes[i] = binary.charCodeAt(i)
BytesOfBinary(binary) == binary

\* A facade whose default is deflate.
FormatOf_Deflate(options) == IF options = "undefined" THEN "deflate" ELSE options

\* options?.compression ?? "gzip"
FormatOf(options) == IF options = "undefined" THEN "gzip" ELSE options

ZipOptions == CompressionFormat \cup {"undefined"}

----------------------------------------------------------------------------
\* The inputs

SmallPaths == { <<1>>, <<0, 2>>, <<BOM, 1>> }

SmallContents == { Text(<<>>), Text(<<1, 3>>), Bytes(<<3, 0>>) }

SmallEntries == { Entry(p, c) : p \in SmallPaths, c \in SmallContents }

RECURSIVE MapsOfSize(_)
MapsOfSize(n) ==
    IF n = 0 THEN { <<>> }
    ELSE { Append(m, e) : m \in MapsOfSize(n - 1),
                          e \in { x \in SmallEntries : TRUE } }

DistinctKeys(m) == \A i, j \in 1..Len(m) : m[i].path = m[j].path => i = j

SmallMaps ==
    { m \in UNION { MapsOfSize(n) : n \in 0..MaxEntries } : DistinctKeys(m) }

\* Maps at the limits of the format.
LimitMaps ==
    { <<Entry(<<1>>, Text(<<BOM, 1>>))>>,
      <<Entry(<<SURROGATE, 1>>, Text(<<1, SURROGATE>>))>>,
      <<Entry(Rep(1, PathLimit), Bytes(<<>>))>>,
      <<Entry(Rep(1, PathLimit + 1), Bytes(<<>>))>>,
      <<Entry(Rep(7, (PathLimit \div 3) + 1), Text(<<1>>))>>,
      <<Entry(<<1>>, Bytes(<<>>)), Entry(Rep(1, PathLimit + 1), Text(<<1>>))>>,
      <<Entry(<<1>>, Bytes(Rep(0, Int32Half)))>>,
      <<Entry(<<1>>, Bytes(Rep(0, ContentLimit)))>>,
      <<Entry(<<1>>, Bytes(Rep(0, ContentLimit))), Entry(<<0>>, Bytes(<<0>>))>>,
      <<Entry(<<1>>, Bytes(Rep(0, ContentLimit + 1)))>>,
      <<Entry(<<1>>, Text(Rep(7, (ContentLimit \div 3) + 1)))>>,
      <<Entry(Rep(1, PathLimit + 1), Bytes(Rep(0, ContentLimit + 1)))>> }

InputMaps == SmallMaps \cup LimitMaps

----------------------------------------------------------------------------
\* State

VARIABLES
    pc,       \* where the call in flight stands
    api,      \* the operation the caller invoked: "serializeFileMap", "zip",
              \* "zipToBlob" or "zipToBase64"
    options,  \* the options given to zip
    map,      \* the Map given to the call
    ser,      \* serializeFileMap's locals: entries, entryData, its result
    archive,  \* what zip returned
    data,     \* the buffer given to deserializeFileMap
    tamper,   \* what the caller did to the serialized buffer before decoding
    unzipOptions, \* the options given to unzip
    ds,       \* deserializeFileMap's locals, what it returned or threw
    runtime,  \* the formats the runtime's streams support
    calls,    \* the steps issued so far, each with the format handed over
    carrier,  \* what zipToBlob or zipToBase64 returned
    jobs,     \* several calls in flight at once: each call's operation,
              \* argument, position and result
    frames,   \* the local variables of those calls, one frame per call
    calc,     \* one function of the module applied to one argument
    heap,     \* the storage of the byte arrays, by address
    held      \* a call whose arguments and results are arrays in that storage

vars ==
    <<pc, api, options, map, ser, archive, data, tamper, unzipOptions, ds,
      runtime, calls, carrier, jobs, frames, calc, heap, held>>

\* The variables of the single call and those of the calls run together.
single ==
    <<pc, api, options, map, ser, archive, data, tamper, unzipOptions, ds,
      runtime, calls, carrier>>

together == <<jobs, frames>>

\* The variables of the function applied on its own, and of the storage.
apart == <<calc, heap, held>>

NoSer == [err |-> NoError, entries |-> <<>>, entryData |-> <<>>, out |-> <<>>]

NoTamper == [kind |-> "none", at |-> 0, value |-> 0]

NoRecord ==
    [start |-> 0, pathLength |-> 0, contentLength |-> 0,
     pathGot |-> 0, contentGot |-> 0, inside |-> TRUE, failed |-> FALSE,
     read |-> FALSE]

NoDs ==
    [offset |-> 0, totalLength |-> 0, entryCount |-> 0, i |-> 0,
     result |-> <<>>, returned |-> FALSE, ret |-> <<>>, err |-> NoError,
     pastEnd |-> FALSE, outside |-> FALSE, rec |-> NoRecord]

NoCarrier == [kind |-> "none", value |-> <<>>]

\* One step of a call: the function entered and the format it was given.
Step(op, format) == [op |-> op, format |-> format]

\* The operations that go through zip.
ZipApis == {"zip", "zipToBlob", "zipToBase64"}

\* A runtime with every format and one without brotli.
Runtimes == { CompressionFormat, CompressionFormat \ {"brotli"} }

Init ==
    /\ pc = "call"
    /\ api \in {"serializeFileMap"} \cup ZipApis
    /\ options \in ZipOptions
    /\ api = "serializeFileMap" => options = "undefined"
    /\ map \in InputMaps
    /\ ser = NoSer
    /\ archive = <<>>
    /\ data = <<>>
    /\ tamper = NoTamper
    /\ unzipOptions = "undefined"
    /\ ds = NoDs
    /\ runtime \in Runtimes
    /\ api = "serializeFileMap" => runtime = CompressionFormat
    /\ calls = <<>>
    /\ carrier = NoCarrier
    /\ jobs = <<>>
    /\ frames = <<>>
    /\ calc = <<>>
    /\ heap = <<>>
    /\ held = <<>>

----------------------------------------------------------------------------
\* serializeFileMap (and zip up to it)

\* The two forms of ZipInput: a Map, and a plain object whose fields are
\* listed in the order they were added.
AsMap(entries) == [kind |-> "Map", entries |-> entries]

AsObject(fields) == [kind |-> "Object", entries |-> fields]

\* input instanceof Map
isMap(input) == input.kind = "Map"

\* A key that is an array index: "0", or digits without a leading "0".  The
\* characters 0 and 1 of the alphabet are the digits "0" and "1".
IsIndexKey(key) ==
    /\ key # <<>>
    /\ \A i \in 1..Len(key) : key[i] \in {0, 1}
    /\ key[1] = 0 => Len(key) = 1

RECURSIVE IndexValue(_, _)
IndexValue(key, n) ==
    IF n = 0 THEN 0 ELSE 10 * IndexValue(key, n - 1) + key[n]

\* An enumeration that keeps the order in which the fields were added.
ObjectEntries_Insertion(fields) == fields

\* Object.entries(input): the fields whose keys are array indices in
\* ascending order, then the other fields in the order they were added.
ObjectEntries(fields) ==
    LET n       == Len(fields)
        isIdx(i) == IsIndexKey(fields[i].path)
        val(i)   == IndexValue(fields[i].path, Len(fields[i].path))
        indices == { i \in 1..n : isIdx(i) }
        rank(i) ==
            IF isIdx(i)
            THEN 1 + Cardinality({ j \in indices : val(j) < val(i) })
            ELSE Cardinality(indices) + 1
                   + Cardinality({ j \in 1..(i - 1) : ~isIdx(j) })
    IN  [r \in 1..n |-> fields[CHOOSE i \in 1..n : rank(i) = r]]

\* normalizeInput(input): a Map is returned as it is, an object becomes
\* new Map(Object.entries(input)).
normalizeInput(input) ==
    IF isMap(input) THEN input.entries ELSE ObjectEntries(input.entries)

\* The call runs to serializeFileMap's first await: both loops have run and
\* entryData is built, or the first loop has thrown.  zip has called
\* normalizeInput before.
SerializeStart ==
    /\ pc = "call"
    /\ LET c == SerializeCollect(normalizeInput(AsMap(map)))
       IN  /\ ser' = [ser EXCEPT !.err = c.err, !.entries = c.entries,
                                 !.entryData = c.entryData]
           /\ pc' = IF c.err # NoError THEN "ser_err" ELSE "ser_await"
    /\ calls' = IF api \in ZipApis
                THEN <<Step("normalizeInput", "none"), Step("serializeFileMap", "none")>>
                ELSE <<Step("serializeFileMap", "none")>>
    /\ UNCHANGED <<api, options, map, archive, data, tamper, unzipOptions, ds,
                 runtime, carrier, together, apart>>

\* After the await: the buffer is assembled and returned.
SerializeResume ==
    /\ pc = "ser_await"
    /\ IF AssembleThrows(ser.entries, ser.entryData)
       THEN /\ ser' = [ser EXCEPT !.err = CORRUPTED_DATA]
            /\ pc' = "ser_err"
       ELSE /\ ser' = [ser EXCEPT !.out = SerializeAssemble(ser.entries,
                                                           ser.entryData)]
            /\ pc' = "ser_done"
    /\ UNCHANGED <<api, options, map, archive, data, tamper, unzipOptions, ds,
                 runtime, calls, carrier, together, apart>>

----------------------------------------------------------------------------
\* zip and unzip

\* zip, lines 87-88: the format is chosen and compress is called; its
\* result is zip's result, and the TypeError of an unsupported format leaves
\* zip as it is.
ZipCompress ==
    /\ pc = "ser_done"
    /\ api \in ZipApis
    /\ LET format == FormatOf(options)
       IN  /\ calls' = Append(calls, Step("compress", format))
           /\ IF StreamUnsupported(format, runtime)
              THEN /\ archive' = archive
                   /\ pc' = "zip_err"
              ELSE /\ archive' = compress(ser.out, format)
                   /\ pc' = "zipped"
    /\ UNCHANGED <<api, options, map, ser, data, tamper, unzipOptions, ds,
                 runtime, carrier, together, apart>>

\* zipToBlob, lines 137-138: the archive is wrapped in a Blob.
ZipToBlobReturn ==
    /\ pc = "zipped"
    /\ api = "zipToBlob"
    /\ carrier' = [kind |-> "Blob", value |-> archive]
    /\ pc' = "carried"
    /\ UNCHANGED <<api, options, map, ser, archive, data, tamper, unzipOptions,
                 ds, runtime, calls, together, apart>>

\* zipToBase64, lines 185-189: the archive becomes a binary string and then
\* base64 text.
ZipToBase64Return ==
    /\ pc = "zipped"
    /\ api = "zipToBase64"
    /\ carrier' = [kind |-> "base64", value |-> btoa(BinaryString(archive))]
    /\ pc' = "carried"
    /\ UNCHANGED <<api, options, map, ser, archive, data, tamper, unzipOptions,
                 ds, runtime, calls, together, apart>>

\* An unzip that calls decompress once more when it has failed.
UnzipCall_Retry(bytes, opts) ==
    LET format == FormatOf(opts)
        d      == decompress(bytes, format, runtime)
    IN  /\ data' = d.out
        /\ ds' = [NoDs EXCEPT !.err = d.err]
        /\ pc' = IF d.err # NoError THEN "unzip_err" ELSE "d_header"
        /\ calls' = calls \o <<Step("decompress", format)>>
                      \o (IF d.err # NoError THEN <<Step("decompress", format)>>
                          ELSE <<Step("deserializeFileMap", "none")>>)
        /\ unzipOptions' = opts

\* unzip(bytes, opts), lines 112-114: the bytes are decompressed and the
\* result handed to deserializeFileMap, or decompress throws.
UnzipCall(bytes, opts) ==
    LET format == FormatOf(opts)
        d      == decompress(bytes, format, runtime)
    IN  /\ data' = d.out
        /\ ds' = [NoDs EXCEPT !.err = d.err]
        /\ pc' = IF d.err # NoError THEN "unzip_err" ELSE "d_header"
        /\ calls' = calls \o <<Step("decompress", format)>>
                      \o (IF d.err # NoError THEN <<>>
                          ELSE <<Step("deserializeFileMap", "none")>>)
        /\ unzipOptions' = opts

\* unzip of the archive zip returned.
UnzipDecompress(opts) ==
    /\ pc = "zipped"
    /\ api = "zip"
    /\ opts \in ZipOptions
    /\ UnzipCall(archive, opts)
    /\ tamper' = [kind |-> "unzip", at |-> 0, value |-> 0]
    /\ UNCHANGED <<api, options, map, ser, archive, runtime, carrier, together, apart>>

\* How many bytes a caller cuts from the end of an archive.
MaxCut == 2

\* unzip of the archive without its last k bytes.
UnzipTruncated(opts, k) ==
    /\ pc = "zipped"
    /\ api = "zip"
    /\ opts \in ZipOptions
    /\ k \in 1..Min(MaxCut, Len(archive))
    /\ UnzipCall(SubSeq(archive, 1, Len(archive) - k), opts)
    /\ tamper' = [kind |-> "unzip_truncated", at |-> 0, value |-> k]
    /\ UNCHANGED <<api, options, map, ser, archive, runtime, carrier, together, apart>>

\* unzipFromBlob, lines 160-161: the Blob's bytes are handed to unzip.
UnzipFromBlob(opts) ==
    /\ pc = "carried"
    /\ carrier.kind = "Blob"
    /\ opts \in ZipOptions
    /\ UnzipCall(carrier.value, opts)
    /\ tamper' = [kind |-> "blob", at |-> 0, value |-> 0]
    /\ UNCHANGED <<api, options, map, ser, archive, runtime, carrier, together, apart>>

\* The texts a caller hands to unzipFromBase64: what zipToBase64 returned
\* (0), that with its last symbol replaced by a character outside the
\* alphabet (1), without its last symbol (2), without its last three (3).
Base64Input(text, damage) ==
    CASE damage = 0 -> text
      [] damage = 1 -> [text EXCEPT ![Len(text)] = NotBase64]
      [] damage = 2 -> SubSeq(text, 1, Len(text) - 1)
      [] damage = 3 -> SubSeq(text, 1, Len(text) - 3)

\* unzipFromBase64, lines 211-217: atob, the bytes of the binary string,
\* unzip.  atob's exception leaves the function as it is.
UnzipFromBase64(opts, damage) ==
    /\ pc = "carried"
    /\ carrier.kind = "base64"
    /\ opts \in ZipOptions
    /\ damage \in 0..3
    /\ LET base64 == Base64Input(carrier.value, damage)
       IN  IF atobThrows(base64)
           THEN /\ pc' = "b64_err"
                /\ unzipOptions' = opts
                /\ UNCHANGED <<data, ds, calls>>
           ELSE UnzipCall(BytesOfBinary(atob(base64)), opts)
    /\ tamper' = [kind |-> "base64", at |-> 0, value |-> damage]
    /\ UNCHANGED <<api, options, map, ser, archive, runtime, carrier, together, apart>>

----------------------------------------------------------------------------
\* What a caller of serializeFileMap does with the buffer before it calls
\* deserializeFileMap

\* The buffer is decoded as it is.
Intact ==
    /\ pc = "ser_done"
    /\ api = "serializeFileMap"
    /\ data' = ser.out
    /\ tamper' = [kind |-> "intact", at |-> 0, value |-> 0]
    /\ ds' = NoDs
    /\ pc' = "d_header"
    /\ calls' = Append(calls, Step("deserializeFileMap", "none"))
    /\ UNCHANGED <<api, options, map, ser, archive, unzipOptions,
                 runtime, carrier, together, apart>>

\* The last k bytes are removed.
Truncate(k) ==
    /\ pc = "ser_done"
    /\ api = "serializeFileMap"
    /\ k \in 1..Len(ser.out)
    /\ data' = SubSeq(ser.out, 1, Len(ser.out) - k)
    /\ tamper' = [kind |-> "truncate", at |-> 0, value |-> k]
    /\ ds' = NoDs
    /\ pc' = "d_header"
    /\ calls' = Append(calls, Step("deserializeFileMap", "none"))
    /\ UNCHANGED <<api, options, map, ser, archive, unzipOptions,
                 runtime, carrier, together, apart>>

\* One byte among the header, the two counters and the first record's prefix
\* is replaced by a different value.
TamperZone == Len(HEADER) + 4 + 4 + 7

OverwriteByte(at, v) ==
    /\ pc = "ser_done"
    /\ api = "serializeFileMap"
    /\ at \in 0..(Min(Len(ser.out), TamperZone) - 1)
    /\ v \in 0..(ByteBase - 1)
    /\ v # ser.out[at + 1]
    /\ data' = [ser.out EXCEPT ![at + 1] = v]
    /\ tamper' = [kind |-> "byte", at |-> at, value |-> v]
    /\ ds' = NoDs
    /\ pc' = "d_header"
    /\ calls' = Append(calls, Step("deserializeFileMap", "none"))
    /\ UNCHANGED <<api, options, map, ser, archive, unzipOptions,
                 runtime, carrier, together, apart>>

\* The values written over the totalLength field: around the real length,
\* around the sign bit and at both ends of the field's range.
LengthValues(len) ==
    { v \in { 0, 1, len - 2, len - 1, len + 1, len + 2, Int32Half - 1, Int32Half,
              Int32Half + 1, (len + Int32Half) % Int32Range, Int32Range - 2,
              Int32Range - 1 } :
        v >= 0 /\ v < Int32Range /\ v # len }

\* The four bytes after the header are overwritten with a value that is not
\* the buffer's length.
OverwriteTotalLength(v) ==
    /\ pc = "ser_done"
    /\ api = "serializeFileMap"
    /\ v \in LengthValues(Len(ser.out))
    /\ data' = [i \in 1..Len(ser.out) |->
                  IF i > Len(HEADER) /\ i <= Len(HEADER) + 4
                  THEN encodeLE(v, 4)[i - Len(HEADER)]
                  ELSE ser.out[i]]
    /\ tamper' = [kind |-> "totalLength", at |-> Len(HEADER), value |-> v]
    /\ ds' = NoDs
    /\ pc' = "d_header"
    /\ calls' = Append(calls, Step("deserializeFileMap", "none"))
    /\ UNCHANGED <<api, options, map, ser, archive, unzipOptions,
                 runtime, carrier, together, apart>>

\* The buffer is cut to its first n bytes and the totalLength field is
\* rewritten to n, so that the length check passes on the shorter buffer.
Shorten(n) ==
    /\ pc = "ser_done"
    /\ api = "serializeFileMap"
    /\ n \in (Len(HEADER) + 4)..Min(Len(ser.out) - 1, TamperZone)
    /\ data' = [i \in 1..n |->
                  IF i > Len(HEADER) /\ i <= Len(HEADER) + 4
                  THEN encodeLE(n, 4)[i - Len(HEADER)]
                  ELSE ser.out[i]]
    /\ tamper' = [kind |-> "shorten", at |-> 0, value |-> n]
    /\ ds' = NoDs
    /\ pc' = "d_header"
    /\ calls' = Append(calls, Step("deserializeFileMap", "none"))
    /\ UNCHANGED <<api, options, map, ser, archive, unzipOptions,
                 runtime, carrier, together, apart>>

\* One more record is written after the last one, for a path that the buffer
\* may hold already, and the two counters are rewritten to match.
AppendRecord(e) ==
    /\ pc = "ser_done"
    /\ api = "serializeFileMap"
    /\ e \in SmallEntries
    /\ LET record == [path     |-> e.path,
                      isBinary |-> e.content.kind # "string",
                      content  |-> ContentBytesOf(e.content)]
       IN  data' = SerializeAssemble(Append(ser.entries, record),
                                     ser.entryData \o EntryBytes(record))
    /\ tamper' = [kind |-> "append", at |-> Len(ser.out), value |-> 0]
    /\ ds' = NoDs
    /\ pc' = "d_header"
    /\ calls' = Append(calls, Step("deserializeFileMap", "none"))
    /\ UNCHANGED <<api, options, map, ser, archive, unzipOptions,
                 runtime, carrier, together, apart>>

----------------------------------------------------------------------------
\* deserializeFileMap, one action per check or loop iteration

\* A slice asked for inside the array.
SliceInside(start, end) == 0 <= start /\ start <= end /\ end <= Len(data)

\* totalLength !== data.length
LengthMismatch(totalLength, len) == totalLength # len

\* A bounds check that leaves the content length out.
EntryExceedsBounds_PathOnly(offset, pathLength, contentLength, len) ==
    offset + pathLength > len

\* offset + pathLength + contentLength > data.length
EntryExceedsBounds(offset, pathLength, contentLength, len) ==
    offset + pathLength + contentLength > len

\* Lines 128-134: the header bytes are compared one by one.
DeserializeHeader ==
    /\ pc = "d_header"
    /\ LET headerLen == Len(HEADER)
           bad       == { i \in 0..(headerLen - 1) : At(data, i) # HEADER[i + 1] }
           first     == IF bad = {} THEN headerLen
                        ELSE CHOOSE i \in bad : \A j \in bad : i <= j
       IN  /\ ds' = [ds EXCEPT
                       !.offset  = IF bad = {} THEN headerLen ELSE 0,
                       !.err     = IF bad = {} THEN NoError ELSE INVALID_HEADER,
                       !.pastEnd = (bad # {} /\ first >= Len(data))]
           /\ pc' = IF bad = {} THEN "d_total" ELSE "d_err"
    /\ UNCHANGED <<api, options, map, ser, archive, data, tamper, unzipOptions,
                 runtime, calls, carrier, together, apart>>

\* Lines 136-150: totalLength is read and compared with data.length.
DeserializeTotalLength ==
    /\ pc = "d_total"
    /\ IF ds.offset + 4 > Len(data)
       THEN /\ ds' = [ds EXCEPT !.err = UNEXPECTED_END]
            /\ pc' = "d_err"
       ELSE LET totalLength == decodeLE(Slice(data, ds.offset, ds.offset + 4))
            IN  /\ ds' = [ds EXCEPT
                            !.totalLength = totalLength,
                            !.offset = ds.offset + 4,
                            !.err = IF LengthMismatch(totalLength, Len(data))
                                    THEN CORRUPTED_DATA ELSE NoError]
                /\ pc' = IF LengthMismatch(totalLength, Len(data))
                         THEN "d_err" ELSE "d_count"
    /\ UNCHANGED <<api, options, map, ser, archive, data, tamper, unzipOptions,
                 runtime, calls, carrier, together, apart>>

\* Lines 152-161: entryCount is read and the result map is created.
DeserializeEntryCount ==
    /\ pc = "d_count"
    /\ IF ds.offset + 4 > Len(data)
       THEN /\ ds' = [ds EXCEPT !.err = UNEXPECTED_END]
            /\ pc' = "d_err"
       ELSE /\ ds' = [ds EXCEPT
                        !.entryCount = decodeLE(Slice(data, ds.offset, ds.offset + 4)),
                        !.offset = ds.offset + 4,
                        !.i = 0,
                        !.result = <<>>]
            /\ pc' = "d_loop"
    /\ UNCHANGED <<api, options, map, ser, archive, data, tamper, unzipOptions,
                 runtime, calls, carrier, together, apart>>

\* Lines 163-195: one iteration of the record loop.
DeserializeRecord ==
    /\ pc = "d_loop"
    /\ ds.i < ds.entryCount
    /\ IF ds.offset + 7 > Len(data)
       THEN /\ ds' = [ds EXCEPT !.err = UNEXPECTED_END]
            /\ pc' = "d_err"
       ELSE LET o0            == ds.offset
                pathLength    == decodeLE(Slice(data, o0, o0 + 2))
                contentLength == decodeLE(Slice(data, o0 + 2, o0 + 6))
                isBinary      == At(data, o0 + 6) = 1
                o1            == o0 + 7
                exceeds       == EntryExceedsBounds(o1, pathLength, contentLength,
                                                    Len(data))
                pathBytes     == Slice(data, o1, o1 + pathLength)
                o2            == o1 + pathLength
                content       == Slice(data, o2, o2 + contentLength)
                o3            == o2 + contentLength
                path          == decodeTextSync(pathBytes)
                rec == [start           |-> o0,
                        pathLength      |-> pathLength,
                        contentLength   |-> contentLength,
                        pathGot         |-> IF exceeds THEN 0 ELSE Len(pathBytes),
                        contentGot      |-> IF exceeds THEN 0 ELSE Len(content),
                        inside          |-> exceeds \/ (SliceInside(o1, o2)
                                                        /\ SliceInside(o2, o3)),
                        failed          |-> exceeds,
                        read            |-> TRUE]
                outside == \/ ds.outside
                           \/ ~SliceInside(o0, o0 + 2)
                           \/ ~SliceInside(o0 + 2, o0 + 6)
                           \/ At(data, o0 + 6) = -1
            IN  IF exceeds
                THEN /\ ds' = [ds EXCEPT !.offset = o1, !.rec = rec,
                                         !.outside = outside,
                                         !.err = ENTRY_EXCEEDS_BOUNDS]
                     /\ pc' = "d_err"
                ELSE /\ ds' = [ds EXCEPT
                                 !.offset = o3, !.rec = rec, !.outside = outside,
                                 !.i = ds.i + 1,
                                 !.result = MapSet(ds.result, path,
                                               IF isBinary THEN Bytes(content)
                                               ELSE Text(decodeTextSync(content)))]
                     /\ pc' = "d_loop"
    /\ UNCHANGED <<api, options, map, ser, archive, data, tamper, unzipOptions,
                 runtime, calls, carrier, together, apart>>

\* Line 197: the loop is over and the map is returned.
DeserializeReturn ==
    /\ pc = "d_loop"
    /\ ~(ds.i < ds.entryCount)
    /\ ds' = [ds EXCEPT !.returned = TRUE, !.ret = ds.result]
    /\ pc' = "d_done"
    /\ UNCHANGED <<api, options, map, ser, archive, data, tamper, unzipOptions,
                 runtime, calls, carrier, together, apart>>

----------------------------------------------------------------------------

Next ==
    \/ SerializeStart
    \/ SerializeResume
    \/ ZipCompress
    \/ ZipToBlobReturn
    \/ ZipToBase64Return
    \/ \E opts \in ZipOptions : UnzipDecompress(opts)
    \/ \E opts \in ZipOptions, k \in 1..MaxCut : UnzipTruncated(opts, k)
    \/ \E opts \in ZipOptions : UnzipFromBlob(opts)
    \/ \E opts \in ZipOptions, damage \in 0..3 : UnzipFromBase64(opts, damage)
    \/ Intact
    \/ \E k \in 1..Len(ser.out) : Truncate(k)
    \/ \E at \in 0..(TamperZone - 1), v \in 0..(ByteBase - 1) : OverwriteByte(at, v)
    \/ \E v \in LengthValues(Len(ser.out)) : OverwriteTotalLength(v)
    \/ \E n \in 0..TamperZone : Shorten(n)
    \/ \E e \in SmallEntries : AppendRecord(e)
    \/ DeserializeHeader
    \/ DeserializeTotalLength
    \/ DeserializeEntryCount
    \/ DeserializeRecord
    \/ DeserializeReturn

Spec == Init /\ [][Next]_vars

----------------------------------------------------------------------------
\* deserializeFileMap as one synchronous call: what it returns or throws

\* The record loop from record i at offset on.
RECURSIVE DeserializeRecords(_, _, _, _, _)
DeserializeRecords(bytes, offset, i, entryCount, result) ==
    IF ~(i < entryCount) THEN [err |-> NoError, value |-> result]
    ELSE IF offset + 7 > Len(bytes) THEN [err |-> UNEXPECTED_END, value |-> <<>>]
    ELSE LET pathLength    == decodeLE(Slice(bytes, offset, offset + 2))
             contentLength == decodeLE(Slice(bytes, offset + 2, offset + 6))
             isBinary      == At(bytes, offset + 6) = 1
             o1            == offset + 7
             o2            == o1 + pathLength
             path          == decodeTextSync(Slice(bytes, o1, o2))
             content       == Slice(bytes, o2, o2 + contentLength)
         IN  IF EntryExceedsBounds(o1, pathLength, contentLength, Len(bytes))
             THEN [err |-> ENTRY_EXCEEDS_BOUNDS, value |-> <<>>]
             ELSE DeserializeRecords(bytes, o2 + contentLength, i + 1, entryCount,
                    MapSet(result, path,
                           IF isBinary THEN Bytes(content)
                           ELSE Text(decodeTextSync(content))))

deserializeFileMap(bytes) ==
    LET headerLen == Len(HEADER)
    IN  IF \E i \in 0..(headerLen - 1) : At(bytes, i) # HEADER[i + 1]
        THEN [err |-> INVALID_HEADER, value |-> <<>>]
        ELSE IF headerLen + 4 > Len(bytes)
        THEN [err |-> UNEXPECTED_END, value |-> <<>>]
        ELSE IF LengthMismatch(decodeLE(Slice(bytes, headerLen, headerLen + 4)),
                               Len(bytes))
        THEN [err |-> CORRUPTED_DATA, value |-> <<>>]
        ELSE IF headerLen + 8 > Len(bytes)
        THEN [err |-> UNEXPECTED_END, value |-> <<>>]
        ELSE DeserializeRecords(bytes, headerLen + 8, 0,
                 decodeLE(Slice(bytes, headerLen + 4, headerLen + 8)), <<>>)

----------------------------------------------------------------------------
\* Several calls in flight.  A call runs from one await to the next without
\* interruption; between two awaits of one call any other call may run.
\* deserializeFileMap has no await.  The module's own objects (HEADER,
\* textEncoder, textDecoder) are never written.

\* How many calls are in flight.
NCalls == 2

\* The arguments of the calls.
MapA == <<Entry(<<1>>, Text(<<1, 3>>)), Entry(<<0, 2>>, Bytes(<<3, 0>>))>>

MapB == <<Entry(<<0>>, Bytes(<<0>>))>>

MapLong == <<Entry(Rep(1, PathLimit + 1), Text(<<>>))>>

BufferOf(m) ==
    LET c == SerializeCollect(m) IN SerializeAssemble(c.entries, c.entryData)

\* What a call is: its operation, its argument and its options.
Call(op, input, opts) == [op |-> op, input |-> input, options |-> opts]

CallKinds ==
    { Call("serializeFileMap", MapA, "undefined"),
      Call("serializeFileMap", MapLong, "undefined"),
      Call("zip", MapA, "undefined"),
      Call("zip", MapB, "deflate"),
      Call("unzip", compress(BufferOf(MapA), "gzip"), "undefined"),
      Call("unzip", compress(BufferOf(MapB), "gzip"), "brotli"),
      Call("deserializeFileMap", BufferOf(MapB), "undefined"),
      Call("deserializeFileMap", SubSeq(BufferOf(MapA), 1, Len(HEADER) + 9),
           "undefined") }

NoResult == [err |-> NoError, value |-> <<>>]

NoFrame ==
    [entries |-> <<>>, entryData |-> <<>>, bytes |-> <<>>, chunks |-> <<>>,
     format |-> "none"]

\* All calls are bound to one frame: locals kept at module level.
FrameOf_Shared(c) == 1

\* The locals of a call (entries, serializedEntries, chunks, ...) are declared
\* inside the function bodies: every call has a frame of its own.
FrameOf(c) == c

InitTogether ==
    /\ jobs \in [1..NCalls -> { [call |-> k, pc |-> "start", result |-> NoResult] :
                                  k \in CallKinds }]
    /\ frames = [c \in 1..NCalls |-> NoFrame]
    /\ pc = "together"
    /\ api = "none"
    /\ options = "undefined"
    /\ map = <<>>
    /\ ser = NoSer
    /\ archive = <<>>
    /\ data = <<>>
    /\ tamper = NoTamper
    /\ unzipOptions = "undefined"
    /\ ds = NoDs
    /\ runtime = CompressionFormat
    /\ calls = <<>>
    /\ carrier = NoCarrier
    /\ calc = <<>>
    /\ heap = <<>>
    /\ held = <<>>

\* Call c moves to position p, its frame becomes f.
Moves(c, p, f) ==
    /\ jobs' = [jobs EXCEPT ![c].pc = p]
    /\ frames' = [frames EXCEPT ![FrameOf(c)] = f]

\* Call c is over with result r.
Settles(c, r) ==
    /\ jobs' = [jobs EXCEPT ![c].pc = "done", ![c].result = r]
    /\ frames' = frames

\* serializeFileMap (called directly or by zip) up to its await.
CallSerializeStart(c) ==
    /\ jobs[c].pc = "start"
    /\ jobs[c].call.op \in {"serializeFileMap", "zip"}
    /\ LET col == SerializeCollect(normalizeInput(AsMap(jobs[c].call.input)))
       IN  IF col.err # NoError
           THEN Settles(c, [err |-> col.err, value |-> <<>>])
           ELSE Moves(c, "ser_await",
                      [frames[FrameOf(c)] EXCEPT !.entries = col.entries,
                                                 !.entryData = col.entryData])
    /\ UNCHANGED <<single, apart>>

\* serializeFileMap after its await: the buffer is returned to the caller or
\* to zip, which waits for it.
CallSerializeResume(c) ==
    /\ jobs[c].pc = "ser_await"
    /\ LET f   == frames[FrameOf(c)]
           out == SerializeAssemble(f.entries, f.entryData)
       IN  IF AssembleThrows(f.entries, f.entryData)
           THEN Settles(c, [err |-> CORRUPTED_DATA, value |-> <<>>])
           ELSE IF jobs[c].call.op = "serializeFileMap"
           THEN Settles(c, [err |-> NoError, value |-> out])
           ELSE Moves(c, "zip_await", [f EXCEPT !.bytes = out])
    /\ UNCHANGED <<single, apart>>

\* zip resumes with the serialized buffer and calls compress, which runs to
\* its first reader.read().
CallZipCompress(c) ==
    /\ jobs[c].pc = "zip_await"
    /\ Moves(c, "compress_read",
             [frames[FrameOf(c)] EXCEPT !.format = FormatOf(jobs[c].call.options),
                                        !.chunks = <<>>])
    /\ UNCHANGED <<single, apart>>

\* compress: a read yields the stream's output, chunks.push(result.value).
CallCompressRead(c) ==
    /\ jobs[c].pc = "compress_read"
    /\ LET f == frames[FrameOf(c)]
       IN  Moves(c, "compress_end",
                 [f EXCEPT !.chunks = Append(f.chunks, compress(f.bytes, f.format))])
    /\ UNCHANGED <<single, apart>>

\* compress: the read that reports done; the chunks are concatenated and
\* returned, which is zip's result.
CallCompressEnd(c) ==
    /\ jobs[c].pc = "compress_end"
    /\ Settles(c, [err |-> NoError,
                   value |-> concatUint8Arrays(frames[FrameOf(c)].chunks)])
    /\ UNCHANGED <<single, apart>>

\* unzip: the format is chosen and decompress runs to its first
\* reader.read().
CallUnzipStart(c) ==
    /\ jobs[c].pc = "start"
    /\ jobs[c].call.op = "unzip"
    /\ Moves(c, "decompress_read",
             [frames[FrameOf(c)] EXCEPT !.format = FormatOf(jobs[c].call.options),
                                        !.bytes = jobs[c].call.input,
                                        !.chunks = <<>>])
    /\ UNCHANGED <<single, apart>>

\* decompress: a read yields the payload or rejects, which decompress rethrows
\* as CORRUPTED_DATA.
CallDecompressRead(c) ==
    /\ jobs[c].pc = "decompress_read"
    /\ LET f == frames[FrameOf(c)]
           d == decompress(f.bytes, f.format, runtime)
       IN  IF d.err # NoError
           THEN Settles(c, [err |-> d.err, value |-> <<>>])
           ELSE Moves(c, "decompress_end", [f EXCEPT !.chunks = Append(f.chunks, d.out)])
    /\ UNCHANGED <<single, apart>>

\* decompress: the read that reports done; unzip resumes and returns what
\* deserializeFileMap returns or throws.
CallDecompressEnd(c) ==
    /\ jobs[c].pc = "decompress_end"
    /\ Settles(c, deserializeFileMap(concatUint8Arrays(frames[FrameOf(c)].chunks)))
    /\ UNCHANGED <<single, apart>>

\* deserializeFileMap called directly: it runs to its end.
CallDeserialize(c) ==
    /\ jobs[c].pc = "start"
    /\ jobs[c].call.op = "deserializeFileMap"
    /\ Settles(c, deserializeFileMap(jobs[c].call.input))
    /\ UNCHANGED <<single, apart>>

NextTogether ==
    \/ \E c \in 1..NCalls : CallSerializeStart(c)
    \/ \E c \in 1..NCalls : CallSerializeResume(c)
    \/ \E c \in 1..NCalls : CallZipCompress(c)
    \/ \E c \in 1..NCalls : CallCompressRead(c)
    \/ \E c \in 1..NCalls : CallCompressEnd(c)
    \/ \E c \in 1..NCalls : CallUnzipStart(c)
    \/ \E c \in 1..NCalls : CallDecompressRead(c)
    \/ \E c \in 1..NCalls : CallDecompressEnd(c)
    \/ \E c \in 1..NCalls : CallDeserialize(c)

SpecTogether == InitTogether /\ [][NextTogether]_vars

----------------------------------------------------------------------------
\* One function of the module applied to one argument

\* Largest number of fields of a plain object.
MaxFields == 3

\* The keys of the fields: "1", "0", "10", "01" and a key that is no number.
FieldKeys == { <<1>>, <<0>>, <<1, 0>>, <<0, 1>>, <<2>> }

FieldContents == << Text(<<1>>), Bytes(<<3, 0>>), Text(<<>>), Bytes(<<>>) >>

RECURSIVE KeyLists(_)
KeyLists(n) ==
    IF n = 0 THEN { <<>> }
    ELSE { Append(ks, k) : ks \in KeyLists(n - 1), k \in FieldKeys }

\* The fields of the objects: distinct keys, the i-th field holding the i-th
\* content.
FieldLists ==
    { [i \in 1..Len(ks) |-> Entry(ks[i], FieldContents[((i - 1) % 4) + 1])] :
        ks \in { k \in UNION { KeyLists(n) : n \in 0..MaxFields } :
                   \A i, j \in 1..Len(k) : k[i] = k[j] => i = j } }

\* All sequences of n bytes.
RECURSIVE ByteSeqs(_)
ByteSeqs(n) ==
    IF n = 0 THEN { <<>> }
    ELSE { Append(b, x) : b \in ByteSeqs(n - 1), x \in 0..(ByteBase - 1) }

Applied(fn, arg) == [fn |-> fn, arg |-> arg, pc |-> "call", out |-> <<>>]

InitApplied ==
    /\ calc \in
         { Applied("encodeLE", [value |-> v, bytes |-> 2]) : v \in 0..PathLimit }
         \cup { Applied("encodeLE", [value |-> v, bytes |-> 4]) : v \in 0..ContentLimit }
         \cup { Applied("decodeLE", b) : b \in ByteSeqs(2) \cup ByteSeqs(4) }
         \cup { Applied("normalizeInput", AsObject(f)) : f \in FieldLists }
         \cup { Applied("normalizeInput", AsMap(f)) : f \in FieldLists }
         \cup { Applied("catch", e) : e \in SqurpErrorCode \cup {TypeError} }
    /\ pc = "apart"
    /\ api = "none"
    /\ options = "undefined"
    /\ map = <<>>
    /\ ser = NoSer
    /\ archive = <<>>
    /\ data = <<>>
    /\ tamper = NoTamper
    /\ unzipOptions = "undefined"
    /\ ds = NoDs
    /\ runtime = CompressionFormat
    /\ calls = <<>>
    /\ carrier = NoCarrier
    /\ jobs = <<>>
    /\ frames = <<>>
    /\ heap = <<>>
    /\ held = <<>>

\* encodeLE(value, bytes), and decodeLE of what it returned.
ApplyEncodeLE ==
    /\ calc.fn = "encodeLE"
    /\ calc.pc = "call"
    /\ calc' = [calc EXCEPT
                  !.pc = "done",
                  !.out = IF encodeLEThrows(calc.arg.value)
                          THEN [err |-> CORRUPTED_DATA, bytes |-> <<>>, back |-> 0]
                          ELSE [err   |-> NoError,
                                bytes |-> encodeLE(calc.arg.value, calc.arg.bytes),
                                back  |-> decodeLE(encodeLE(calc.arg.value,
                                                            calc.arg.bytes))]]
    /\ UNCHANGED <<single, together, heap, held>>

\* decodeLE(bytes)
ApplyDecodeLE ==
    /\ calc.fn = "decodeLE"
    /\ calc.pc = "call"
    /\ calc' = [calc EXCEPT !.pc = "done", !.out = decodeLE(calc.arg)]
    /\ UNCHANGED <<single, together, heap, held>>

\* normalizeInput(input), and what serializeFileMap makes of its result.
ApplyNormalizeInput ==
    /\ calc.fn = "normalizeInput"
    /\ calc.pc = "call"
    /\ LET m == normalizeInput(calc.arg)
           c == SerializeCollect(m)
       IN  calc' = [calc EXCEPT
                      !.pc = "done",
                      !.out = [map        |-> m,
                               serialized |-> SerializeAssemble(c.entries,
                                                                c.entryData)]]
    /\ UNCHANGED <<single, together, heap, held>>

\* The catch block of decompress on an error thrown inside its try block.
ApplyCatch ==
    /\ calc.fn = "catch"
    /\ calc.pc = "call"
    /\ calc' = [calc EXCEPT !.pc = "done", !.out = Rethrown(calc.arg)]
    /\ UNCHANGED <<single, together, heap, held>>

NextApplied ==
    \/ ApplyEncodeLE
    \/ ApplyDecodeLE
    \/ ApplyNormalizeInput
    \/ ApplyCatch

SpecApplied == InitApplied /\ [][NextApplied]_vars

----------------------------------------------------------------------------
\* The byte arrays in storage.  A Uint8Array is a view of a stored buffer: the
\* buffer's address, where the view starts and how many bytes it has.  The
\* caller keeps references to the arrays it passed in and may write to them
\* whenever the call is suspended or has returned.

\* The caller's writes per call.
MaxEdits == 1

NoView == [at |-> 0, from |-> 0, len |-> 0]

\* new Uint8Array(n), placed at address a: a view of all of a fresh buffer.
Whole(a, n) == [at |-> a, from |-> 0, len |-> n]

\* The bytes seen through a view.
Deref(h, view) == SubSeq(h[view.at], view.from + 1, view.from + view.len)

\* The content of a map entry: a string, or a byte array in storage.
StoredText(units) == [kind |-> "string", text |-> units, view |-> NoView]

StoredBytes(view) == [kind |-> "Uint8Array", text |-> <<>>, view |-> view]

\* The map as values: every byte array replaced by the bytes it holds.
Resolve(h, m) ==
    [i \in 1..Len(m) |->
        Entry(m[i].path,
              IF m[i].content.kind = "string" THEN Text(m[i].content.text)
              ELSE Bytes(Deref(h, m[i].content.view)))]

\* The maps the caller builds: each byte array in a buffer of its own.
RECURSIVE Place(_, _, _)
Place(m, i, st) ==
    IF i > Len(m) THEN st
    ELSE LET c == m[i].content
         IN  IF c.kind = "string"
             THEN Place(m, i + 1,
                        [st EXCEPT !.map = Append(@, Entry(m[i].path,
                                                           StoredText(c.value)))])
             ELSE Place(m, i + 1,
                        [heap |-> Append(st.heap, c.value),
                         map  |-> Append(st.map,
                                    Entry(m[i].path,
                                          StoredBytes(Whole(Len(st.heap) + 1,
                                                            Len(c.value)))))])

MapBoth == <<Entry(<<0, 2>>, Bytes(<<3, 0>>)), Entry(<<1>>, Bytes(<<1>>))>>

StoredMaps == { <<>>, MapA, MapB, MapBoth }

NoHeld ==
    [op |-> "none", pc |-> "call", map |-> <<>>, input |-> NoView,
     atCall |-> [heap |-> <<>>, map |-> <<>>],
     entries |-> <<>>, entryData |-> NoView, out |-> NoView, err |-> NoError,
     ret |-> <<>>, archive |-> <<>>, returned |-> <<>>,
     edits |-> 0, pending |-> 0]

\* A call of serializeFileMap or zip on a stored map, or of deserializeFileMap
\* on a stored buffer.
InitStored ==
    /\ \E op \in {"serializeFileMap", "zip", "deserializeFileMap"}, m \in StoredMaps :
          LET st == IF op = "deserializeFileMap"
                    THEN [heap |-> <<BufferOf(m)>>, map |-> <<>>]
                    ELSE Place(m, 1, [heap |-> <<>>, map |-> <<>>])
          IN  /\ heap = st.heap
              /\ held = [NoHeld EXCEPT
                           !.op = op,
                           !.map = st.map,
                           !.input = IF op = "deserializeFileMap"
                                     THEN Whole(1, Len(st.heap[1])) ELSE NoView,
                           !.atCall = st]
    /\ pc = "apart"
    /\ api = "none"
    /\ options = "undefined"
    /\ map = <<>>
    /\ ser = NoSer
    /\ archive = <<>>
    /\ data = <<>>
    /\ tamper = NoTamper
    /\ unzipOptions = "undefined"
    /\ ds = NoDs
    /\ runtime = CompressionFormat
    /\ calls = <<>>
    /\ carrier = NoCarrier
    /\ jobs = <<>>
    /\ frames = <<>>
    /\ calc = <<>>

\* Lines 73-92: the entries array.  A string is encoded into a fresh array; a
\* byte array is entered as it is, the caller's own array.
RECURSIVE StoredEntries(_, _, _)
StoredEntries(m, i, st) ==
    IF i > Len(m) THEN st
    ELSE LET c == m[i].content
             a == Len(st.heap) + 1
         IN  IF c.kind = "string"
             THEN StoredEntries(m, i + 1,
                    [heap    |-> Append(st.heap, encodeTextSync(c.text)),
                     entries |-> Append(st.entries,
                                   [path     |-> m[i].path,
                                    isBinary |-> FALSE,
                                    content  |-> Whole(a, Len(encodeTextSync(c.text)))])])
             ELSE StoredEntries(m, i + 1,
                    [st EXCEPT !.entries = Append(@,
                                   [path     |-> m[i].path,
                                    isBinary |-> TRUE,
                                    content  |-> c.view])])

\* Lines 94-112: the records, each written into a fresh array from the bytes
\* its entry's content holds at that moment.
RecordsWritten(h, entries) ==
    [i \in 1..Len(entries) |->
        EntryBytes([entries[i] EXCEPT !.content = Deref(h, entries[i].content)])]

\* An entryData that is put together again from the entries when the call
\* resumes.
ResumedEntryData_Reread(h, call) ==
    concatUint8Arrays(RecordsWritten(h, call.entries))

\* Line 114: what the await gives back, the array concatUint8Arrays filled
\* before the call was suspended.
ResumedEntryData(h, call) == Deref(h, call.entryData)

\* serializeFileMap up to its await.
StoredSerializeStart ==
    /\ held # <<>>
    /\ held.op \in {"serializeFileMap", "zip"}
    /\ held.pc = "call"
    /\ LET c  == SerializeCollect(normalizeInput(AsMap(Resolve(heap, held.map))))
           st == StoredEntries(held.map, 1, [heap |-> heap, entries |-> <<>>])
           entryData == concatUint8Arrays(RecordsWritten(st.heap, st.entries))
       IN  IF c.err # NoError
           THEN /\ held' = [held EXCEPT !.pc = "ser_err", !.err = c.err]
                /\ heap' = heap
           ELSE /\ heap' = Append(st.heap, entryData)
                /\ held' = [held EXCEPT
                              !.pc = "ser_await",
                              !.entries = st.entries,
                              !.entryData = Whole(Len(st.heap) + 1, Len(entryData))]
    /\ UNCHANGED <<single, together, calc>>

\* serializeFileMap after its await: the buffer is put together in a fresh
\* array and returned, to the caller or to zip.
StoredSerializeResume ==
    /\ held # <<>>
    /\ held.pc = "ser_await"
    /\ LET entryData == ResumedEntryData(heap, held)
           out       == SerializeAssemble(held.entries, entryData)
       IN  IF AssembleThrows(held.entries, entryData)
           THEN /\ held' = [held EXCEPT !.pc = "ser_err", !.err = CORRUPTED_DATA]
                /\ heap' = heap
           ELSE /\ heap' = Append(heap, out)
                /\ held' = [held EXCEPT
                              !.pc = IF held.op = "zip" THEN "zip_await"
                                     ELSE "ser_done",
                              !.out = Whole(Len(heap) + 1, Len(out)),
                              !.returned = out]
    /\ UNCHANGED <<single, together, calc>>

\* zip, lines 87-88: the serialized buffer is compressed and the archive
\* returned.
StoredZipCompress ==
    /\ held # <<>>
    /\ held.pc = "zip_await"
    /\ held' = [held EXCEPT
                  !.pc = "zipped",
                  !.archive = compress(Deref(heap, held.out), FormatOf("undefined"))]
    /\ UNCHANGED <<heap, single, together, calc>>

\* A slice that is a view of the same buffer, as subarray gives.
SliceOf_Subarray(view, start, end, fresh) ==
    [at |-> view.at, from |-> view.from + start, len |-> end - start]

\* data.slice(start, end), lines 186 and 189: a fresh array at address `fresh`
\* that holds a copy of the bytes.
SliceOf(view, start, end, fresh) == Whole(fresh, end - start)

\* Lines 163-195 on a buffer that passes every check: the records are read
\* and the map is filled, each content sliced out of the buffer.
RECURSIVE StoredRecords(_, _, _, _, _)
StoredRecords(input, offset, i, entryCount, st) ==
    IF ~(i < entryCount) THEN st
    ELSE LET bytes         == Deref(st.heap, input)
             pathLength    == decodeLE(Slice(bytes, offset, offset + 2))
             contentLength == decodeLE(Slice(bytes, offset + 2, offset + 6))
             isBinary      == At(bytes, offset + 6) = 1
             o1            == offset + 7
             o2            == o1 + pathLength
             o3            == o2 + contentLength
             path          == decodeTextSync(Slice(bytes, o1, o2))
             content       == SliceOf(input, o2, o3, Len(st.heap) + 1)
             h             == Append(st.heap, Slice(bytes, o2, o3))
         IN  StoredRecords(input, o3, i + 1, entryCount,
                [heap |-> h,
                 map  |-> MapSet(st.map, path,
                            IF isBinary THEN StoredBytes(content)
                            ELSE StoredText(decodeTextSync(Deref(h, content))))])

\* deserializeFileMap, which has no await: it returns or throws at once.
StoredDeserialize ==
    /\ held # <<>>
    /\ held.op = "deserializeFileMap"
    /\ held.pc = "call"
    /\ LET bytes == Deref(heap, held.input)
           r     == deserializeFileMap(bytes)
           st    == StoredRecords(held.input, Len(HEADER) + 8, 0,
                       decodeLE(Slice(bytes, Len(HEADER) + 4, Len(HEADER) + 8)),
                       [heap |-> heap, map |-> <<>>])
       IN  IF r.err # NoError
           THEN /\ held' = [held EXCEPT !.pc = "d_err", !.err = r.err]
                /\ heap' = heap
           ELSE /\ heap' = st.heap
                /\ held' = [held EXCEPT !.pc = "d_done", !.ret = st.map,
                                        !.returned = Resolve(st.heap, st.map)]
    /\ UNCHANGED <<single, together, calc>>

\* The call is suspended at an await; the call has returned.
Suspended == held.pc \in {"ser_await", "zip_await"}

Settled == held.pc \in {"ser_done", "zipped", "d_done"}

\* One more write of the caller, counted apart when the call is pending.
Edited(call) ==
    [call EXCEPT !.edits = @ + 1,
                 !.pending = IF Suspended THEN @ + 1 ELSE @]

\* The caller writes v over byte i of an array it passed in: a content array
\* of the map, or the input buffer.
CallerOverwrite(a, i, v) ==
    /\ held # <<>>
    /\ Suspended \/ Settled
    /\ held.edits < MaxEdits
    /\ a \in 1..Len(held.atCall.heap)
    /\ i \in 1..Len(heap[a])
    /\ v \in 0..(ByteBase - 1)
    /\ v # heap[a][i]
    /\ heap' = [heap EXCEPT ![a][i] = v]
    /\ held' = Edited(held)
    /\ UNCHANGED <<single, together, calc>>

\* The caller adds an entry to the map it passed in, or replaces one.
CallerSet(path, units) ==
    /\ held # <<>>
    /\ held.op \in {"serializeFileMap", "zip"}
    /\ Suspended \/ Settled
    /\ held.edits < MaxEdits
    /\ held' = [Edited(held) EXCEPT !.map = MapSet(held.map, path, StoredText(units))]
    /\ UNCHANGED <<heap, single, together, calc>>

\* The caller removes an entry of the map it passed in.
CallerDelete(i) ==
    /\ held # <<>>
    /\ held.op \in {"serializeFileMap", "zip"}
    /\ Suspended \/ Settled
    /\ held.edits < MaxEdits
    /\ i \in 1..Len(held.map)
    /\ held' = [Edited(held) EXCEPT
                  !.map = SubSeq(held.map, 1, i - 1)
                            \o SubSeq(held.map, i + 1, Len(held.map))]
    /\ UNCHANGED <<heap, single, together, calc>>

NextStored ==
    \/ StoredSerializeStart
    \/ StoredSerializeResume
    \/ StoredZipCompress
    \/ StoredDeserialize
    \/ \E a \in 1..Len(held.atCall.heap) :
          \E i \in 1..Len(heap[a]), v \in 0..(ByteBase - 1) : CallerOverwrite(a, i, v)
    \/ \E path \in SmallPaths, units \in {<<>>, <<1>>} : CallerSet(path, units)
    \/ \E i \in 1..Len(held.map) : CallerDelete(i)

SpecStored == InitStored /\ [][NextStored]_vars

----------------------------------------------------------------------------
\* Vocabulary of the properties

\* deserializeFileMap has returned or thrown.
Decoded == pc \in {"d_done", "d_err"}

\* serializeFileMap has returned, thrown or reached its await.
Serialized == pc # "call"

\* The byte length of a content: its UTF-8 length for text.
ByteLength(content) ==
    IF content.kind = "string" THEN Len(encodeTextSync(content.value))
    ELSE Len(content.value)

\* The bytes a content stands for.
BytesOfContent(content) ==
    IF content.kind = "string" THEN encodeTextSync(content.value) ELSE content.value

RECURSIVE RunningSum(_, _)
RunningSum(m, i) == IF i = 0 THEN 0 ELSE RunningSum(m, i - 1) + ByteLength(m[i].content)

\* The precondition of the round trip: paths of at most 65535 UTF-8 bytes and
\* at most 2^32-1 bytes of content.
ValidInput(m) ==
    /\ \A i \in 1..Len(m) : Len(encodeTextSync(m[i].path)) <= PathLimit
    /\ RunningSum(m, Len(m)) <= ContentLimit

\* Same paths in the same order, same content bytes, same kinds.
SameEntries(out, in) ==
    /\ Len(out) = Len(in)
    /\ \A i \in 1..Len(in) :
         /\ out[i].path = in[i].path
         /\ out[i].content.kind = in[i].content.kind
         /\ BytesOfContent(out[i].content) = BytesOfContent(in[i].content)

\* The value of a little-endian field as the format defines it, unsigned.
RECURSIVE UnsignedLE(_, _)
UnsignedLE(bytes, i) ==
    IF i > Len(bytes) THEN 0 ELSE bytes[i] + ByteBase * UnsignedLE(bytes, i + 1)

\* The pathLength and contentLength fields of the record last read.
DeclaredPath == UnsignedLE(Slice(data, ds.rec.start, ds.rec.start + 2), 1)

DeclaredContent == UnsignedLE(Slice(data, ds.rec.start + 2, ds.rec.start + 6), 1)

\* The entryCount field of the buffer, read as the format defines it.
EntryCountField ==
    UnsignedLE(Slice(data, Len(HEADER) + 4, Len(HEADER) + 8), 1)

\* The totalLength field of the buffer, read as the format defines it.
TotalLengthField ==
    UnsignedLE(Slice(data, Len(HEADER), Len(HEADER) + 4), 1)

----------------------------------------------------------------------------
\* C1: round trip.  For every map whose paths are at most 65535 UTF-8 bytes
\* and whose content is at most 2^32-1 bytes, serializeFileMap succeeds and
\* deserializeFileMap of its output returns the same paths in the same order
\* with the same content bytes and kinds.
C1_RoundTrip ==
    (api = "serializeFileMap" /\ ValidInput(map)) =>
        /\ pc # "ser_err"
        /\ (tamper.kind = "intact" /\ Decoded) =>
              (ds.returned /\ SameEntries(ds.ret, map))

\* C2: bounds safety of the record loop.  No record read leaves the buffer; a
\* record whose declared pathLength + contentLength exceeds the bytes after
\* its 7-byte prefix makes the call fail with ENTRY_EXCEEDS_BOUNDS; otherwise
\* the path and content slices lie inside the buffer and have exactly the
\* declared lengths.
C2_DecodeBounds ==
    /\ ~ds.outside
    /\ ds.rec.read =>
         IF DeclaredPath + DeclaredContent > Len(data) - (ds.rec.start + 7)
         THEN pc = "d_err" /\ ds.err = ENTRY_EXCEEDS_BOUNDS
         ELSE /\ ~ds.rec.failed
              /\ ds.rec.inside
              /\ ds.rec.pathGot = DeclaredPath
              /\ ds.rec.contentGot = DeclaredContent

\* C3: truncation.  A serialized buffer without its last k >= 1 bytes makes
\* deserializeFileMap fail with UNEXPECTED_END, ENTRY_EXCEEDS_BOUNDS or
\* CORRUPTED_DATA; it never returns a map.
C3_Truncation ==
    (tamper.kind = "truncate" /\ Decoded) =>
        /\ pc = "d_err"
        /\ ~ds.returned
        /\ ds.err \in {UNEXPECTED_END, ENTRY_EXCEEDS_BOUNDS, CORRUPTED_DATA}

\* C4 as claimed: whenever deserializeFileMap returns, the final read offset
\* equals the length of the input.
C4_NoTrailingBytes ==
    pc = "d_done" => ds.offset = Len(data)

\* C4 as amended: whenever deserializeFileMap returns, the totalLength it read
\* equals the length of the input and the final read offset is at most that
\* length; bytes after the last record are accepted unread.
C4_OffsetWithinData ==
    pc = "d_done" =>
        /\ ds.totalLength = Len(data)
        /\ ds.offset <= Len(data)

\* C4's case: a call that returned with bytes left unread after the records.
C4_Witness ==
    pc = "d_done" /\ ds.totalLength = Len(data) /\ ds.offset < Len(data)

\* C5: header corruption.  Replacing any of the bytes 0..6 of a serialized
\* buffer by a different value makes deserializeFileMap fail with
\* INVALID_HEADER.
C5_HeaderCorruption ==
    (tamper.kind = "byte" /\ tamper.at \in 0..6 /\ pc # "d_header") =>
        (pc = "d_err" /\ ds.err = INVALID_HEADER)

\* C6: length mismatch.  A totalLength field overwritten with a value that is
\* not the buffer's length gives CORRUPTED_DATA, and a buffer whose
\* totalLength field holds its length is not rejected with CORRUPTED_DATA.
C6_LengthMismatch ==
    /\ (tamper.kind = "totalLength" /\ pc \notin {"d_header", "d_total"}) =>
          (pc = "d_err" /\ ds.err = CORRUPTED_DATA)
    /\ (tamper.kind = "intact" /\ TotalLengthField = Len(data)) =>
          ds.err # CORRUPTED_DATA

\* C7: path limit.  serializeFileMap fails with PATH_TOO_LONG whenever the
\* UTF-8 encoding of some path is longer than 65535 bytes, and never fails
\* with it when every path's UTF-8 encoding is at most 65535 bytes.
C7_PathLimit ==
    Serialized =>
        IF \E i \in 1..Len(map) : Len(encodeTextSync(map[i].path)) > PathLimit
        THEN pc = "ser_err" /\ ser.err = PATH_TOO_LONG
        ELSE ser.err # PATH_TOO_LONG

C9_NoPartialResult ==
    /\ ds.returned => pc = "d_done"
    /\ pc = "d_done" => (ds.returned /\ ds.i = EntryCountField)

\* C10: end-to-end round trip.  With the same format on both sides,
\* unzip(zip(entries)) returns the entries of every valid map.
C10_EndToEnd ==
    (api = "zip" /\ ValidInput(map)) =>
        /\ pc # "ser_err"
        /\ (FormatOf(unzipOptions) = FormatOf(options)
              /\ pc \in {"unzip_err", "d_done", "d_err"}) =>
              (ds.returned /\ SameEntries(ds.ret, map))

----------------------------------------------------------------------------
\* Vocabulary of the layout properties

\* The length of the record of entry i: its 7-byte prefix, its path bytes and
\* its content bytes.
RecordLength(m, i) ==
    7 + Len(encodeTextSync(m[i].path)) + ByteLength(m[i].content)

\* Where the record of entry i starts when the records follow a header of
\* headerLen bytes and the two 4-byte counters.
RECURSIVE RecordStart(_, _, _)
RecordStart(m, i, headerLen) ==
    IF i = 1 THEN headerLen + 4 + 4
    ELSE RecordStart(m, i - 1, headerLen) + RecordLength(m, i - 1)

\* The flag byte of an entry: 1 for a byte array, 0 for text.
FlagOf(content) == IF content.kind = "Uint8Array" THEN 1 ELSE 0

\* The record of entry i of the input stands at `start` in the output.
RecordAt(out, m, i, start) ==
    LET pathBytes    == encodeTextSync(m[i].path)
        contentBytes == BytesOfContent(m[i].content)
        p            == start + 7
        c            == p + Len(pathBytes)
    IN  /\ start + RecordLength(m, i) <= Len(out)
        /\ UnsignedLE(SubSeq(out, start + 1, start + 2), 1) = Len(pathBytes)
        /\ UnsignedLE(SubSeq(out, start + 3, start + 6), 1) = Len(contentBytes)
        /\ out[start + 7] = FlagOf(m[i].content)
        /\ SubSeq(out, p + 1, c) = pathBytes
        /\ SubSeq(out, c + 1, c + Len(contentBytes)) = contentBytes

\* The container layout with a header of headerLen bytes.
Layout(out, m, headerLen) ==
    /\ Len(out) >= headerLen + 4 + 4
    /\ UnsignedLE(SubSeq(out, headerLen + 1, headerLen + 4), 1) = Len(out)
    /\ UnsignedLE(SubSeq(out, headerLen + 5, headerLen + 8), 1) = Len(m)
    /\ \A i \in 1..Len(m) : RecordAt(out, m, i, RecordStart(m, i, headerLen))
    /\ Len(out) = IF m = <<>> THEN headerLen + 4 + 4
                  ELSE RecordStart(m, Len(m), headerLen) + RecordLength(m, Len(m))

\* The entry the record last read was stored under.
LastStored ==
    LET p    == ds.rec.start + 7
        path == decodeTextSync(Slice(data, p, p + ds.rec.pathLength))
    IN  { ds.result[j] : j \in { k \in 1..Len(ds.result) : ds.result[k].path = path } }

----------------------------------------------------------------------------
\* C11: empty input.  serializeFileMap of an empty map returns exactly 15
\* bytes: the 7-byte magic header, totalLength = 15, entryCount = 0 and no
\* records; deserializeFileMap of that buffer returns an empty map.
C11_EmptyInput ==
    (api = "serializeFileMap" /\ map = <<>>) =>
        /\ pc # "ser_err"
        /\ pc = "ser_done" =>
              /\ Len(ser.out) = 7 + 4 + 4
              /\ UnsignedLE(SubSeq(ser.out, 8, 11), 1) = 15
              /\ UnsignedLE(SubSeq(ser.out, 12, 15), 1) = 0
        /\ (tamper.kind = "intact" /\ Decoded) => (ds.returned /\ ds.ret = <<>>)

\* C12: kind per entry.  serializeFileMap writes flag 1 exactly for byte-array
\* entries and 0 for text; deserializeFileMap stores raw bytes exactly for
\* records whose flag is 1 and decoded text for any other flag; a decoded
\* archive returns under every path of the input the kind the input gave it.
C12_KindPreserved ==
    /\ pc = "ser_done" =>
          \A i \in 1..Len(map) :
              At(ser.out, RecordStart(map, i, Len(HEADER)) + 6) = FlagOf(map[i].content)
    /\ (ds.rec.read /\ ~ds.rec.failed) =>
          /\ LastStored # {}
          /\ \A e \in LastStored :
                e.content.kind = IF At(data, ds.rec.start + 6) = 1
                                 THEN "Uint8Array" ELSE "string"
    /\ (tamper.kind \in {"intact", "unzip"} /\ ds.returned) =>
          \A i \in 1..Len(map), j \in 1..Len(ds.ret) :
              ds.ret[j].path = map[i].path =>
                  ds.ret[j].content.kind = map[i].content.kind

\* C13: container layout.  The output is the 7-byte magic header, a 4-byte
\* totalLength equal to the length of the output, a 4-byte entryCount equal
\* to the number of entries, then one record per entry in iteration order,
\* each pathLength(2) | contentLength(4) | flag(1) | path bytes | content
\* bytes.
C13_Layout ==
    pc = "ser_done" => Layout(ser.out, map, 7)

----------------------------------------------------------------------------
\* Vocabulary of the facade properties

\* What the call in flight has thrown to its caller: serializeFileMap's
\* error, the TypeError out of compress, atob's exception, or the error of
\* decompress or deserializeFileMap.
Thrown ==
    CASE pc = "ser_err" -> ser.err
      [] pc = "zip_err" -> TypeError
      [] pc = "b64_err" -> InvalidCharacterError
      [] pc \in {"unzip_err", "d_err"} -> ds.err
      [] OTHER -> NoError

\* An unzip call has been made (atob, where there is one, has not thrown).
UnzipCalled ==
    /\ tamper.kind \in {"unzip", "unzip_truncated", "blob", "base64"}
    /\ pc # "b64_err"

\* The bytes that unzip call was given.
UnzipInput ==
    CASE tamper.kind = "unzip" -> archive
      [] tamper.kind = "unzip_truncated" ->
            SubSeq(archive, 1, Len(archive) - tamper.value)
      [] tamper.kind = "blob" -> carrier.value
      [] tamper.kind = "base64" ->
            BytesOfBinary(atob(Base64Input(carrier.value, tamper.value)))

\* The steps of one name issued so far.
StepsOf(op) == { i \in 1..Len(calls) : calls[i].op = op }

\* The names of the steps issued so far, in order.
Ops == [i \in 1..Len(calls) |-> calls[i].op]

IsPrefix(a, b) == Len(a) <= Len(b) /\ a = SubSeq(b, 1, Len(a))

----------------------------------------------------------------------------
\* C14: whenever the decompression stream rejects the bytes unzip was given
\* (not a stream of the format, or a truncated one), unzip fails with
\* CORRUPTED_DATA and deserializeFileMap is not run.
C14_DecompressRejects ==
    (UnzipCalled /\ StreamRejects(UnzipInput, FormatOf(unzipOptions))) =>
        /\ pc = "unzip_err"
        /\ Thrown = CORRUPTED_DATA
        /\ StepsOf("deserializeFileMap") = {}
        /\ ds = [NoDs EXCEPT !.err = CORRUPTED_DATA]

\* C14's case: unzip was given a truncated archive, in the format it was
\* written in, and has failed.
C14_Witness ==
    /\ tamper.kind = "unzip_truncated"
    /\ FormatOf(unzipOptions) = FormatOf(options)
    /\ StreamRejects(UnzipInput, FormatOf(unzipOptions))
    /\ pc = "unzip_err"

\* C15: with a format the runtime does not support, compress (zip) and
\* decompress (unzip) fail with UNSUPPORTED_COMPRESSION.
C15_UnsupportedFormat ==
    /\ (\E i \in StepsOf("compress") : calls[i].format \notin runtime) =>
          Thrown = UNSUPPORTED_COMPRESSION
    /\ (\E i \in StepsOf("decompress") : calls[i].format \notin runtime) =>
          Thrown = UNSUPPORTED_COMPRESSION

\* C16: typed errors only.  Whatever a top-level operation throws is a
\* SqurpError with a SqurpErrorCode; a failure of the compression streams or
\* of the base64 decoder comes out as CORRUPTED_DATA.
C16_TypedErrors ==
    api \in ZipApis =>
        /\ Thrown \in SqurpErrorCode \cup {NoError}
        /\ pc \in {"zip_err", "b64_err", "unzip_err"} => Thrown = CORRUPTED_DATA

\* C17: facade ordering.  zip runs normalize, serialize, compress in this
\* order, with one compress call and only after serialize has succeeded;
\* unzip issues one decompress call and runs deserialize only after it has
\* succeeded; no step is issued twice.
C17_FacadeOrder ==
    api \in ZipApis =>
        /\ IsPrefix(Ops, <<"normalizeInput", "serializeFileMap", "compress",
                           "decompress", "deserializeFileMap">>)
        /\ pc = "ser_err" => StepsOf("compress") = {}
        /\ StepsOf("compress") # {} => (ser.err = NoError /\ ser.out # <<>>)
        /\ pc \in {"zipped", "carried", "zip_err"} => Cardinality(StepsOf("compress")) = 1
        /\ UnzipCalled => Cardinality(StepsOf("decompress")) = 1
        /\ pc = "unzip_err" => StepsOf("deserializeFileMap") = {}
        /\ StepsOf("deserializeFileMap") # {} =>
              ~StreamRejects(UnzipInput, FormatOf(unzipOptions))
        /\ \A i, j \in 1..Len(calls) : calls[i].op = calls[j].op => i = j

\* C17's case: a zip and an unzip that went through all five steps.
C17_Witness ==
    api = "zip" /\ pc = "d_done" /\ Len(calls) = 5

\* C19: the Blob and base64 adapters.  unzipFromBlob and unzipFromBase64 of
\* what zipToBlob and zipToBase64 returned hand to unzip the bytes zip
\* returned, so the call goes as unzip of zip's archive goes; bytes ->
\* base64 text -> bytes is the identity on the archive.
C19_Adapters ==
    /\ carrier.kind = "Blob" => carrier.value = archive
    /\ carrier.kind = "base64" =>
          /\ ~atobThrows(carrier.value)
          /\ BytesOfBinary(atob(carrier.value)) = archive
    /\ (tamper.kind \in {"blob", "base64"} /\ tamper.value = 0) =>
          LET d == decompress(archive, FormatOf(unzipOptions), runtime)
          IN  /\ pc # "b64_err"
              /\ d.err # NoError => (pc = "unzip_err" /\ ds.err = d.err)
              /\ d.err = NoError => (pc # "unzip_err" /\ data = d.out)

\* C19's case: an archive whose base64 text ends with padding went through
\* zipToBase64 and unzipFromBase64 and was decoded.
C19_Witness ==
    /\ api = "zipToBase64"
    /\ tamper.kind = "base64"
    /\ tamper.value = 0
    /\ Len(archive) % 3 # 0
    /\ pc = "d_done"

----------------------------------------------------------------------------
\* What a call returns or throws when no other call is in flight.
Alone(call) ==
    CASE call.op = "serializeFileMap" ->
            LET c == SerializeCollect(call.input)
            IN  IF c.err # NoError THEN [err |-> c.err, value |-> <<>>]
                ELSE [err |-> NoError,
                      value |-> SerializeAssemble(c.entries, c.entryData)]
      [] call.op = "zip" ->
            LET c == SerializeCollect(normalizeInput(AsMap(call.input)))
            IN  IF c.err # NoError THEN [err |-> c.err, value |-> <<>>]
                ELSE [err |-> NoError,
                      value |-> compress(SerializeAssemble(c.entries, c.entryData),
                                         FormatOf(call.options))]
      [] call.op = "unzip" ->
            LET d == decompress(call.input, FormatOf(call.options), CompressionFormat)
            IN  IF d.err # NoError THEN [err |-> d.err, value |-> <<>>]
                ELSE deserializeFileMap(d.out)
      [] call.op = "deserializeFileMap" -> deserializeFileMap(call.input)

\* C18: independence of concurrent calls.  In every interleaving of the
\* calls' awaits each call that is over has the result it has when run
\* alone, and what a call keeps across an await is written by no other call.
C18_Independence ==
    \A c \in DOMAIN jobs :
        /\ jobs[c].pc = "done" => jobs[c].result = Alone(jobs[c].call)
        /\ jobs[c].pc = "ser_await" =>
              frames[c].entries = SerializeCollect(jobs[c].call.input).entries

\* C18's case: a zip and a serializeFileMap of another map are both
\* suspended, the zip inside compress, the other at its await.
C18_Witness ==
    /\ DOMAIN jobs = 1..NCalls
    /\ jobs[1].call.op = "zip"
    /\ jobs[2].call.op = "serializeFileMap"
    /\ jobs[1].call.input # jobs[2].call.input
    /\ jobs[1].pc = "compress_end"
    /\ jobs[2].pc = "ser_await"

----------------------------------------------------------------------------
\* Vocabulary of the properties of single functions

\* The fields of an object as a set.
FieldSet(fields) == { fields[i] : i \in 1..Len(fields) }

\* Where a field stands among the fields as they were added.
AddedAt(fields, key) == CHOOSE i \in 1..Len(fields) : fields[i].path = key

\* m lists fields in enumeration order: array-index keys first, by value,
\* then the other keys in the order they were added.
InEnumerationOrder(m, fields) ==
    \A a, b \in 1..Len(m) :
        a < b =>
            LET ka == m[a].path
                kb == m[b].path
            IN  IF IsIndexKey(ka) /\ IsIndexKey(kb)
                THEN IndexValue(ka, Len(ka)) < IndexValue(kb, Len(kb))
                ELSE IF IsIndexKey(kb) THEN FALSE
                ELSE IF IsIndexKey(ka) THEN TRUE
                ELSE AddedAt(fields, ka) < AddedAt(fields, kb)

\* C21: normalizeInput returns a Map as it is and turns a plain object into
\* a Map of exactly its fields in enumeration order; it never fails, and the
\* object and the Map of the same entries in that order serialize to the
\* same bytes.
C21_NormalizeInput ==
    (calc # <<>> /\ calc.fn = "normalizeInput" /\ calc.pc = "done") =>
        /\ isMap(calc.arg) => calc.out.map = calc.arg.entries
        /\ ~isMap(calc.arg) =>
              /\ Len(calc.out.map) = Len(calc.arg.entries)
              /\ FieldSet(calc.out.map) = FieldSet(calc.arg.entries)
              /\ InEnumerationOrder(calc.out.map, calc.arg.entries)
        /\ calc.out.serialized = BufferOf(normalizeInput(AsMap(calc.out.map)))

\* C21's case: an object whose array-index keys were not added in
\* ascending order, and after another key, has been normalized.
C21_Witness ==
    /\ calc # <<>>
    /\ calc.fn = "normalizeInput"
    /\ calc.pc = "done"
    /\ ~isMap(calc.arg)
    /\ calc.out.map # calc.arg.entries

\* C23: integer fields are unsigned little-endian.  For n in {2, 4} and
\* 0 <= v < 256^n, byte i of encodeLE(v, n) is floor(v / 256^i) mod 256 and
\* decodeLE(encodeLE(v, n)) = v; decodeLE of a 2- or 4-byte sequence is the
\* sum of b[i] * 256^i and never negative.
C23_UnsignedLE ==
    /\ (calc # <<>> /\ calc.fn = "encodeLE" /\ calc.pc = "done") =>
          /\ calc.out.err = NoError
          /\ \A i \in 0..(calc.arg.bytes - 1) :
                calc.out.bytes[i + 1] = (calc.arg.value \div Pow(ByteBase, i)) % ByteBase
          /\ calc.out.back = calc.arg.value
    /\ (calc # <<>> /\ calc.fn = "decodeLE" /\ calc.pc = "done") =>
          /\ calc.out = UnsignedLE(calc.arg, 1)
          /\ calc.out >= 0

----------------------------------------------------------------------------
\* The first check that fails on the buffer, the header taking headerLen
\* bytes and the fields being read as the format defines them; NoError when
\* the four checks ahead of the records pass.
FirstFailure(headerLen) ==
    LET len == Len(data)
    IN  IF len < headerLen
           \/ \E i \in 0..(Len(HEADER) - 1) : At(data, i) # HEADER[i + 1]
        THEN INVALID_HEADER
        ELSE IF len - headerLen < 4 THEN UNEXPECTED_END
        ELSE IF UnsignedLE(Slice(data, headerLen, headerLen + 4), 1) # len
        THEN CORRUPTED_DATA
        ELSE IF len - headerLen - 4 < 4 THEN UNEXPECTED_END
        ELSE NoError

\* The checks of deserializeFileMap are reported in their order.
CheckOrder(headerLen) ==
    Decoded =>
        IF FirstFailure(headerLen) # NoError
        THEN pc = "d_err" /\ ds.err = FirstFailure(headerLen)
        ELSE /\ ds.err \notin {INVALID_HEADER, CORRUPTED_DATA}
             /\ ds.err = ENTRY_EXCEEDS_BOUNDS => Len(data) - ds.rec.start >= 7
             /\ ds.err = UNEXPECTED_END => Len(data) - ds.offset < 7

\* C22: decode check order.  deserializeFileMap reports the first check that
\* fails: a buffer shorter than 7 bytes or with a magic-byte mismatch gives
\* INVALID_HEADER; otherwise fewer than 4 bytes after the header give
\* UNEXPECTED_END; otherwise a totalLength that is not the buffer's length
\* gives CORRUPTED_DATA; otherwise fewer than 4 bytes for entryCount give
\* UNEXPECTED_END; then, record by record, fewer than 7 remaining bytes give
\* UNEXPECTED_END before the ENTRY_EXCEEDS_BOUNDS check is made.
C22_CheckOrder == CheckOrder(7)

----------------------------------------------------------------------------
\* The records that a buffer holds, read as the format defines them: n records
\* from offset on, each with its decoded path and its content by kind.
RECURSIVE RecordsFrom(_, _, _)
RecordsFrom(bytes, offset, n) ==
    IF n = 0 THEN <<>>
    ELSE LET pathLength    == UnsignedLE(Slice(bytes, offset, offset + 2), 1)
             contentLength == UnsignedLE(Slice(bytes, offset + 2, offset + 6), 1)
             p             == offset + 7
             c             == p + pathLength
             content       == Slice(bytes, c, c + contentLength)
         IN  <<Entry(decodeTextSync(Slice(bytes, p, c)),
                     IF At(bytes, offset + 6) = 1 THEN Bytes(content)
                     ELSE Text(decodeTextSync(content)))>>
               \o RecordsFrom(bytes, c + contentLength, n - 1)

RecordsOf(bytes) == RecordsFrom(bytes, Len(HEADER) + 8, EntryCountField)

\* Two of the records carry the same decoded path.
HasDuplicate(records) ==
    \E i, j \in 1..Len(records) : i < j /\ records[i].path = records[j].path

\* The last record with the path.
LastWith(records, path) ==
    records[CHOOSE i \in 1..Len(records) :
               /\ records[i].path = path
               /\ \A j \in (i + 1)..Len(records) : records[j].path # path]

\* C24: duplicate paths on decode.  A buffer in which several records carry
\* the same path is accepted by deserializeFileMap without error; the map
\* returned has exactly one entry per distinct decoded path, with the content
\* and kind of the last record with that path, and so at most entryCount
\* entries.
C24_DuplicatePaths ==
    (tamper.kind = "append" /\ Decoded /\ HasDuplicate(RecordsOf(data))) =>
        LET records == RecordsOf(data)
        IN  /\ pc = "d_done"
            /\ { ds.ret[j].path : j \in 1..Len(ds.ret) }
                  = { records[i].path : i \in 1..Len(records) }
            /\ DistinctKeys(ds.ret)
            /\ \A j \in 1..Len(ds.ret) :
                  ds.ret[j].content = LastWith(records, ds.ret[j].path).content
            /\ Len(ds.ret) <= EntryCountField

----------------------------------------------------------------------------
\* C25: own errors pass through unchanged.  An error raised by
\* serializeFileMap reaches the caller of zip, zipToBlob or zipToBase64 as it
\* is, with nothing compressed or returned; an error raised by
\* deserializeFileMap reaches the caller of unzip, unzipFromBlob or
\* unzipFromBase64 as it is; a SqurpError caught inside decompress is rethrown
\* as that error, not rewritten to CORRUPTED_DATA.
C25_OwnErrors ==
    /\ (api \in ZipApis /\ ser.err # NoError) =>
          /\ pc = "ser_err"
          /\ Thrown = ser.err
          /\ StepsOf("compress") = {}
          /\ archive = <<>> /\ carrier = NoCarrier
    /\ (UnzipCalled /\ StepsOf("deserializeFileMap") # {} /\ ds.err # NoError) =>
          /\ pc = "d_err"
          /\ Thrown = ds.err
          /\ ~ds.returned
    /\ \A error \in SqurpErrorCode : Rethrown(error) = error

\* C25's case: unzip has decompressed an archive and deserializeFileMap has
\* thrown.
C25_Witness ==
    /\ UnzipCalled
    /\ StepsOf("deserializeFileMap") # {}
    /\ pc = "d_err"
    /\ ds.err \in SqurpErrorCode

----------------------------------------------------------------------------
\* Where the record of the i-th entry written starts in the output.
RECURSIVE WrittenStart(_, _)
WrittenStart(entries, i) ==
    IF i = 1 THEN Len(HEADER) + 4 + 4
    ELSE WrittenStart(entries, i - 1) + 7
           + Len(encodeTextSync(entries[i - 1].path)) + Len(entries[i - 1].content)

\* serializeFileMap has returned a buffer.
Returned == ser.err = NoError /\ pc \notin {"call", "ser_await", "ser_err"}

\* C27: self-consistent output.  In every buffer serializeFileMap returns,
\* each record's pathLength field is the number of path bytes written after
\* the prefix, its contentLength field the number of content bytes written,
\* totalLength the buffer's length and entryCount the number of records: no
\* field holds a length wrapped modulo 2^16 or 2^32.
C27_SelfConsistent ==
    Returned =>
        /\ UnsignedLE(SubSeq(ser.out, Len(HEADER) + 1, Len(HEADER) + 4), 1)
              = Len(ser.out)
        /\ UnsignedLE(SubSeq(ser.out, Len(HEADER) + 5, Len(HEADER) + 8), 1)
              = Len(ser.entries)
        /\ \A i \in 1..Len(ser.entries) :
              LET start == WrittenStart(ser.entries, i)
              IN  /\ UnsignedLE(SubSeq(ser.out, start + 1, start + 2), 1)
                        = Len(encodeTextSync(ser.entries[i].path))
                  /\ UnsignedLE(SubSeq(ser.out, start + 3, start + 6), 1)
                        = Len(ser.entries[i].content)

----------------------------------------------------------------------------
\* The record loop has read the prefix of a record.
RecordRead == pc \in {"d_loop", "d_done", "d_err"} /\ ds.rec.read

\* The offset stays inside the buffer and, over an iteration of the record
\* loop, moves forward by the 7-byte prefix and the two declared lengths; the
\* loop runs at most as many times as records fit after fixedLen bytes.
Progress(fixedLen) ==
    /\ Decoded \/ pc \in {"d_total", "d_count", "d_loop"} =>
          /\ 0 <= ds.offset /\ ds.offset <= Len(data)
          /\ 7 * ds.i <= Max(Len(data) - fixedLen, 0)
    /\ (RecordRead /\ ~ds.rec.failed) =>
          /\ ds.offset >= ds.rec.start
          /\ ds.offset = ds.rec.start + 7 + DeclaredPath + DeclaredContent

\* C28: decode progress.  In deserializeFileMap the read offset never
\* decreases, grows by exactly 7 + pathLength + contentLength on every loop
\* iteration and stays within 0..len(data), so that the record loop performs
\* at most floor((len(data) - 15) / 7) iterations whatever the entryCount
\* field holds.
C28_Progress == Progress(15)

----------------------------------------------------------------------------
\* C29: closed error sets.  serializeFileMap fails only with PATH_TOO_LONG or
\* CONTENT_TOO_LARGE: the guard of encodeLE is never met, every length it is
\* given being a non-negative integer.  deserializeFileMap fails only with
\* INVALID_HEADER, UNEXPECTED_END, CORRUPTED_DATA or ENTRY_EXCEEDS_BOUNDS.  No
\* operation raises UNSUPPORTED_VERSION or INVALID_COMPRESSION_FORMAT.
C29_ClosedErrorSets ==
    /\ ser.err \in {NoError, PATH_TOO_LONG, CONTENT_TOO_LARGE}
    /\ (StepsOf("deserializeFileMap") # {} /\ pc = "d_err") =>
          ds.err \in {INVALID_HEADER, UNEXPECTED_END, CORRUPTED_DATA,
                      ENTRY_EXCEEDS_BOUNDS}
    /\ Thrown \notin {UNSUPPORTED_VERSION, INVALID_COMPRESSION_FORMAT}

\* C29's case: serializeFileMap has encoded the lengths of a buffer of 2^31
\* bytes or more and returned it, and deserializeFileMap has failed on it.
C29_Witness ==
    /\ Returned
    /\ Len(ser.out) >= Int32Half
    /\ StepsOf("deserializeFileMap") # {}
    /\ pc = "d_err"

----------------------------------------------------------------------------
\* The input of the call as it was when the call was made.
Snapshot == Resolve(held.atCall.heap, held.atCall.map)

\* The addresses of the arrays the caller passed in.
InputAddresses == 1..Len(held.atCall.heap)

\* serializeFileMap has returned its buffer, to the caller or to zip.
BufferReturned == held.pc \in {"ser_done", "zip_await", "zipped"}

\* C26: no mutation and no aliasing.  serializeFileMap and deserializeFileMap
\* do not modify the map, its byte-array contents or the input buffer; what
\* they return shares no storage with the input, so that a write of the
\* caller to the input after the call has returned changes neither the
\* returned buffer nor a returned binary content.
C26_NoAliasing ==
    held # <<>> =>
        /\ held.edits = 0 =>
              /\ SubSeq(heap, 1, Len(held.atCall.heap)) = held.atCall.heap
              /\ held.map = held.atCall.map
        /\ BufferReturned =>
              /\ held.out.at \notin InputAddresses
              /\ Deref(heap, held.out) = held.returned
        /\ held.pc = "d_done" =>
              /\ \A j \in 1..Len(held.ret) :
                    held.ret[j].content.kind = "Uint8Array" =>
                        held.ret[j].content.view.at \notin InputAddresses
              /\ Resolve(heap, held.ret) = held.returned

\* C26's case: deserializeFileMap has returned a binary content and the
\* caller has then written into the bytes of the input buffer it came from.
C26_Witness ==
    /\ held # <<>>
    /\ held.pc = "d_done"
    /\ held.edits > 0
    /\ \E j \in 1..Len(held.ret) : held.ret[j].content.kind = "Uint8Array"
    /\ Deref(heap, held.input) # Deref(held.atCall.heap, held.input)

====
